---------------------------- MODULE Spec2Model ----------------------------
(***************************************************************************)
(* A model of md_api_server: the parameter validator, the permission      *)
(* resolver, the session helpers, the execution pipeline                  *)
(* (APIUtils.tryExecuteMethod around APIMethod.canBeExecuted and          *)
(* APIMethod.execute), the storage wrapper's transaction primitives on    *)
(* its single connection, and the /multicall handler.                     *)
(*                                                                         *)
(* Text is a sequence of one-character strings, so that String(), trim()  *)
(* and the regular expressions of checkParameter are computed and not     *)
(* assumed.                                                                *)
(***************************************************************************)
EXTENDS Integers, Sequences, FiniteSets, TLC

VARIABLES
    db,           \* the tables as the single connection sees them
    dbCommitted,  \* the tables as of the last commit (what a rollback restores)
    inTx,         \* whether a transaction is open on the connection
    now,          \* the time source NOW(), in minutes
    fr,           \* per in-flight call: its stack of pipeline frames
    out,          \* per call: the envelope written to the client
    probe         \* input and result of a pure function under test

vars == <<db, dbCommitted, inTx, now, fr, out, probe>>

(* JavaScript values are tagged records, so that any two can be compared *)
Null == [t |-> "null"]
Undef == [t |-> "undefined"]
Str(chars) == [t |-> "string", s |-> chars]
Num(n) == [t |-> "number", n |-> n]
Bool(b) == [t |-> "boolean", b |-> b]
Arr(a) == [t |-> "array", a |-> a]
Obj(o) == [t |-> "object", o |-> o]
\* a string built from literal parts (a message, an error code)
Text(parts) == [t |-> "string", parts |-> parts]
\* v === undefined || v === null
Absent(v) == v.t \in {"null", "undefined"}

-----------------------------------------------------------------------------
(* Bounds of the model *)

\* writes a user handler issues at most before it returns or throws
MaxWrites == 2
\* entries of a multicall's call list
MaxEntries == 2

-----------------------------------------------------------------------------
(* ERROR_CODES *)

PERMISSION_MISSING == Text(<<"PERMISSION_MISSING">>)
PERMISSION_SESSION == Text(<<"PERMISSION_SESSION">>)
PERMISSION_NO_SESSION == Text(<<"PERMISSION_NO_SESSION">>)
PARAM_MISSING == Text(<<"PARAM_MISSING">>)
PARAM_TYPE == Text(<<"PARAM_TYPE">>)
PARAM_RANGE == Text(<<"PARAM_RANGE">>)
HANDLER_ERROR == Text(<<"HANDLER_ERROR">>)
METHOD_ERROR == Text(<<"METHOD_ERROR">>)
METHOD_UNKNOWN == Text(<<"METHOD_UNKNOWN">>)
MULTICALL_ERROR == Text(<<"MULTICALL_ERROR">>)

-----------------------------------------------------------------------------
(* Sequences as JavaScript arrays *)

Includes(arr, x) == \E i \in 1..Len(arr) : arr[i] = x

RECURSIVE PushNew(_, _)
\* for(let d of items) { if(!result.includes(d)) { result.push(d); } }
PushNew(result, items) ==
    IF items = <<>> THEN result
    ELSE PushNew(IF Includes(result, Head(items)) THEN result
                 ELSE Append(result, Head(items)),
                 Tail(items))

Range(arr) == {arr[i] : i \in 1..Len(arr)}

-----------------------------------------------------------------------------
(* TEXT *)

DigitChars == {"0", "1", "2", "3", "4", "5", "6", "7", "8", "9"}
HexChars == DigitChars \cup {"a", "b", "c", "d", "e", "f", "A", "B", "C", "D", "E", "F"}

DigitValue(c) ==
    CASE c = "0" -> 0 [] c = "1" -> 1 [] c = "2" -> 2 [] c = "3" -> 3 [] c = "4" -> 4
      [] c = "5" -> 5 [] c = "6" -> 6 [] c = "7" -> 7 [] c = "8" -> 8 [] c = "9" -> 9

DigitChar(n) ==
    CASE n = 0 -> "0" [] n = 1 -> "1" [] n = 2 -> "2" [] n = 3 -> "3" [] n = 4 -> "4"
      [] n = 5 -> "5" [] n = 6 -> "6" [] n = 7 -> "7" [] n = 8 -> "8" [] n = 9 -> "9"

Repeat(c, n) == [i \in 1..n |-> c]

\* String.prototype.trim, with the blank as the white space of the model
RECURSIVE TrimLeft(_)
TrimLeft(chars) ==
    IF chars # <<>> /\ Head(chars) = " " THEN TrimLeft(Tail(chars)) ELSE chars
RECURSIVE TrimRight(_)
TrimRight(chars) ==
    IF chars # <<>> /\ chars[Len(chars)] = " "
    THEN TrimRight(SubSeq(chars, 1, Len(chars) - 1)) ELSE chars
Trim(chars) == TrimRight(TrimLeft(chars))

AllIn(chars, set) == \A i \in 1..Len(chars) : chars[i] \in set

\* the decimal digits of a natural number
RECURSIVE NatDigits(_)
NatDigits(n) ==
    IF n < 10 THEN <<DigitChar(n)>> ELSE Append(NatDigits(n \div 10), DigitChar(n % 10))

\* the value of a non-empty sequence of decimal digits
RECURSIVE DigitsValue(_)
DigitsValue(chars) ==
    IF Len(chars) = 1 THEN DigitValue(chars[1])
    ELSE 10 * DigitsValue(SubSeq(chars, 1, Len(chars) - 1)) + DigitValue(chars[Len(chars)])

Chars_true == <<"t", "r", "u", "e">>
Chars_false == <<"f", "a", "l", "s", "e">>
Chars_null == <<"n", "u", "l", "l">>
Chars_object == <<"[", "o", "b", "j", "e", "c", "t", " ", "O", "b", "j", "e", "c", "t", "]">>

\* a string holding the JSON text of document doc (its characters are not modelled)
JsonText(doc) == [t |-> "string", json |-> doc]
IsJsonText(v) == v.t = "string" /\ "json" \in DOMAIN v

\* String(v) of a present value
StringOf(v) ==
    CASE v.t = "string" -> v
      [] v.t = "number" -> Str(IF v.n < 0 THEN <<"-">> \o NatDigits(-v.n) ELSE NatDigits(v.n))
      [] v.t = "boolean" -> Str(IF v.b THEN Chars_true ELSE Chars_false)
      [] OTHER -> Str(Chars_object)

\* s.trim()
TrimStr(v) == IF IsJsonText(v) THEN v ELSE Str(Trim(v.s))

\* /^([0-9]+)$/
MatchesInt(chars) == chars # <<>> /\ AllIn(chars, DigitChars)

\* /^[-]?[0-9]+(\.[0-9]+)?$/
MatchesFloat(chars) ==
    LET body == IF chars # <<>> /\ Head(chars) = "-" THEN Tail(chars) ELSE chars
        dots == {i \in 1..Len(body) : body[i] = "."}
    IN \/ MatchesInt(body)
       \/ \E i \in dots : /\ MatchesInt(SubSeq(body, 1, i - 1))
                          /\ MatchesInt(SubSeq(body, i + 1, Len(body)))

\* (0\d|1[1-2])
MatchesMonth(a, b) == \/ a = "0" /\ b \in DigitChars
                      \/ a = "1" /\ b \in {"1", "2"}
\* ([0-2][1-9]|10|20|3[0-1])
MatchesDay(a, b) == \/ a \in {"0", "1", "2"} /\ b \in DigitChars \ {"0"}
                    \/ a \in {"1", "2"} /\ b = "0"
                    \/ a = "3" /\ b \in {"0", "1"}
\* ([0-1][0-9]|2[0-3])
MatchesHour(a, b) == \/ a \in {"0", "1"} /\ b \in DigitChars
                     \/ a = "2" /\ b \in {"0", "1", "2", "3"}
\* ([0-5][0-9])
MatchesSixty(a, b) == a \in {"0", "1", "2", "3", "4", "5"} /\ b \in DigitChars

\* /^(\d{4})-(0\d|1[1-2])-([0-2][1-9]|10|20|3[0-1])$/
MatchesDate(chars) ==
    /\ Len(chars) = 10
    /\ AllIn(SubSeq(chars, 1, 4), DigitChars)
    /\ chars[5] = "-" /\ MatchesMonth(chars[6], chars[7])
    /\ chars[8] = "-" /\ MatchesDay(chars[9], chars[10])

\* the date pattern followed by " HH:MM:SS"
MatchesDatetime(chars) ==
    /\ Len(chars) = 19
    /\ MatchesDate(SubSeq(chars, 1, 10))
    /\ chars[11] = " " /\ MatchesHour(chars[12], chars[13])
    /\ chars[14] = ":" /\ MatchesSixty(chars[15], chars[16])
    /\ chars[17] = ":" /\ MatchesSixty(chars[18], chars[19])

\* /^[A-Fa-f0-9]{64}$/
MatchesSha256(chars) == Len(chars) = 64 /\ AllIn(chars, HexChars)

\* /^[0-9a-f]{8}-[0-9a-f]{4}-[1-5][0-9a-f]{3}-[89ab][0-9a-f]{3}-[0-9a-f]{12}$/i
MatchesUuid(chars) ==
    /\ Len(chars) = 36
    /\ \A i \in 1..36 : IF i \in {9, 14, 19, 24} THEN chars[i] = "-"
                        ELSE IF i = 15 THEN chars[i] \in {"1", "2", "3", "4", "5"}
                        ELSE IF i = 20 THEN chars[i] \in {"8", "9", "a", "b", "A", "B"}
                        ELSE chars[i] \in HexChars

LowerChar(c) ==
    CASE c = "A" -> "a" [] c = "B" -> "b" [] c = "C" -> "c" [] c = "D" -> "d"
      [] c = "E" -> "e" [] c = "F" -> "f" [] OTHER -> c
\* String.prototype.toLowerCase on the characters of the model
ToLowerCase(chars) == [i \in 1..Len(chars) |-> LowerChar(chars[i])]

\* JSON.parse: [ok, value]; ok is false where JSON.parse throws
JsonParse(v) ==
    IF IsJsonText(v) THEN [ok |-> TRUE, value |-> v.json]
    ELSE IF v.s = Chars_true THEN [ok |-> TRUE, value |-> Bool(TRUE)]
    ELSE IF v.s = Chars_false THEN [ok |-> TRUE, value |-> Bool(FALSE)]
    ELSE IF v.s = Chars_null THEN [ok |-> TRUE, value |-> Null]
    ELSE IF MatchesInt(v.s) /\ (Len(v.s) = 1 \/ Head(v.s) # "0")
         THEN [ok |-> TRUE, value |-> Num(DigitsValue(v.s))]
    ELSE [ok |-> FALSE, value |-> Undef]

-----------------------------------------------------------------------------
(* PARAMETER VERIFICATION *)

\* VerificationResult; reason and errorCode are set only when passed is false
Passed == [passed |-> TRUE]
Rejected(reason, code) == [passed |-> FALSE, reason |-> reason, errorCode |-> code]

Has(parm, field) == field \in DOMAIN parm

\* the type-specific switch of checkParameter on the trimmed text:
\* [typeCheckPassed, newValue]
TypeCheck(type, text) ==
    LET no == [typeCheckPassed |-> FALSE, newValue |-> text]
        yes(v) == [typeCheckPassed |-> TRUE, newValue |-> v]
    IN CASE type \in {"int", "integer"} ->
              IF ~IsJsonText(text) /\ MatchesInt(text.s)
              THEN yes(Num(DigitsValue(text.s))) ELSE no
         [] type \in {"float", "double"} ->
              IF ~IsJsonText(text) /\ MatchesFloat(text.s)
              THEN yes(IF MatchesInt(text.s) THEN Num(DigitsValue(text.s))
                       ELSE IF Head(text.s) = "-" /\ MatchesInt(Tail(text.s))
                            THEN Num(-DigitsValue(Tail(text.s)))
                       ELSE [t |-> "number", real |-> text.s])
              ELSE no
         [] type = "datetime" ->
              IF ~IsJsonText(text) /\ MatchesDatetime(text.s) THEN yes(text) ELSE no
         [] type = "date" ->
              IF ~IsJsonText(text) /\ MatchesDate(text.s) THEN yes(text) ELSE no
         [] type \in {"boolean", "bool"} ->
              IF ~IsJsonText(text) /\ text.s \in {Chars_true, <<"1">>} THEN yes(Bool(TRUE))
              ELSE IF ~IsJsonText(text) /\ text.s \in {Chars_false, <<"0">>}
                   THEN yes(Bool(FALSE))
              ELSE no
         [] type = "char" ->
              IF ~IsJsonText(text) /\ Len(text.s) = 1 THEN yes(text) ELSE no
         [] type = "string" ->
              IF IsJsonText(text) \/ Len(text.s) > 0 THEN yes(text) ELSE no
         [] type = "sha256" ->
              IF ~IsJsonText(text) /\ MatchesSha256(text.s) THEN yes(text) ELSE no
         [] type = "uuid" ->
              IF ~IsJsonText(text) /\ MatchesUuid(text.s) THEN yes(text) ELSE no
         [] type = "json" ->
              LET parsed == JsonParse(text) IN
              IF parsed.ok THEN yes(parsed.value) ELSE no
         [] OTHER -> no

RECURSIVE PowerOfTen(_)
PowerOfTen(k) == IF k = 0 THEN 1 ELSE 10 * PowerOfTen(k - 1)

\* the number a decimal literal [-]digits[.digits] stands for, as the
\* fraction n / den: [nan, n, den]
DecimalOf(chars) ==
    LET negative == chars # <<>> /\ Head(chars) = "-"
        body == IF negative THEN Tail(chars) ELSE chars
        sign == IF negative THEN 0 - 1 ELSE 1
        dots == {i \in 1..Len(body) : body[i] = "."}
    IN IF MatchesInt(body)
       THEN [nan |-> FALSE, n |-> sign * DigitsValue(body), den |-> 1]
       ELSE IF /\ Cardinality(dots) = 1
               /\ \A i \in dots : /\ MatchesInt(SubSeq(body, 1, i - 1))
                                  /\ MatchesInt(SubSeq(body, i + 1, Len(body)))
       THEN LET i == CHOOSE j \in dots : TRUE
                k == Len(body) - i
            IN [nan |-> FALSE,
                n |-> sign * (DigitsValue(SubSeq(body, 1, i - 1)) * PowerOfTen(k)
                              + DigitsValue(SubSeq(body, i + 1, Len(body)))),
                den |-> PowerOfTen(k)]
       ELSE [nan |-> TRUE, n |-> 0, den |-> 1]

\* ToNumber of a value, for the relational operators: [nan, n, den], the
\* number being n / den
ToNumber(v) ==
    CASE v.t = "number" /\ "n" \in DOMAIN v -> [nan |-> FALSE, n |-> v.n, den |-> 1]
      [] v.t = "number" /\ "real" \in DOMAIN v -> DecimalOf(v.real)
      [] v.t = "boolean" -> [nan |-> FALSE, n |-> IF v.b THEN 1 ELSE 0, den |-> 1]
      [] v.t = "null" -> [nan |-> FALSE, n |-> 0, den |-> 1]
      [] v.t = "string" /\ "s" \in DOMAIN v /\ Trim(v.s) = <<>> ->
             [nan |-> FALSE, n |-> 0, den |-> 1]
      [] v.t = "string" /\ "s" \in DOMAIN v -> DecimalOf(Trim(v.s))
      [] OTHER -> [nan |-> TRUE, n |-> 0, den |-> 1]

\* a < b where b is a number
LessThan(a, b) == LET x == ToNumber(a) IN ~x.nan /\ x.n < b * x.den
\* a > b where b is a number
GreaterThan(a, b) == LET x == ToNumber(a) IN ~x.nan /\ x.n > b * x.den

\* v.length: [defined, n]
LengthOf(v) ==
    CASE v.t = "string" /\ ~IsJsonText(v) -> [defined |-> TRUE, n |-> Len(v.s)]
      [] v.t = "array" -> [defined |-> TRUE, n |-> Len(v.a)]
      [] OTHER -> [defined |-> FALSE, n |-> 0]

ReasonMissing(key) == Text(<<"Required parameter ", key, " is missing.">>)
ReasonType(key, type) == Text(<<"Parameter ", key, " has the wrong type, expected ", type, ".">>)
ReasonMin(key, limit) ==
    Text(<<"Parameter ", key, " is too small, the minimum value is ", ToString(limit), ".">>)
ReasonMax(key, limit) ==
    Text(<<"Parameter ", key, " is too big, the maximum value is ", ToString(limit), ".">>)
ReasonMaxLength(key, limit) ==
    Text(<<"Parameter ", key, " is too long, the maximum length is ", ToString(limit), ".">>)
ReasonMinLength(key, limit) ==
    Text(<<"Parameter ", key, " is too short, the minimum length is ", ToString(limit), ".">>)
ReasonAllowed(key) == Text(<<"Parameter ", key, " has an invalid value.">>)

Accepted(newValue) == [passed |-> TRUE, newValue |-> newValue]

\* a variant that gives null for every missing optional parameter
checkParameter_NullForMissing(parm, parms) ==
    IF ~(parm.key \in DOMAIN parms) \/ Absent(parms[parm.key])
    THEN IF Has(parm, "optional") /\ parm.optional
         THEN Accepted(Null)
         ELSE Rejected(ReasonMissing(parm.key), PARAM_MISSING)
    ELSE IF ~Has(parm, "type") THEN Undef
    ELSE LET tc == TypeCheck(parm.type, TrimStr(StringOf(parms[parm.key])))
             \* if(newValue === null) { newValue = parms[parm.key]; }
             newValue == IF tc.newValue = Null THEN parms[parm.key] ELSE tc.newValue
         IN IF Has(parm, "interpretAsNull") /\ Includes(parm.interpretAsNull, newValue)
            THEN Accepted(Null)
            ELSE IF ~tc.typeCheckPassed
                 THEN Rejected(ReasonType(parm.key, parm.type), PARAM_TYPE)
            ELSE IF Has(parm, "min") /\ LessThan(newValue, parm.min)
                 THEN Rejected(ReasonMin(parm.key, parm.min), PARAM_RANGE)
            ELSE IF Has(parm, "max") /\ GreaterThan(newValue, parm.max)
                 THEN Rejected(ReasonMax(parm.key, parm.max), PARAM_RANGE)
            ELSE IF Has(parm, "maxLength") /\ LengthOf(newValue).defined
                    /\ LengthOf(newValue).n > parm.maxLength
                 THEN Rejected(ReasonMaxLength(parm.key, parm.maxLength), PARAM_RANGE)
            ELSE IF Has(parm, "minLength") /\ LengthOf(newValue).defined
                    /\ LengthOf(newValue).n < parm.minLength
                 THEN Rejected(ReasonMinLength(parm.key, parm.minLength), PARAM_RANGE)
            ELSE IF Has(parm, "allowedValues") /\ ~Includes(parm.allowedValues, newValue)
                 THEN Rejected(ReasonAllowed(parm.key), PARAM_RANGE)
            ELSE Accepted(newValue)

\* a variant that looks at the minimum length before the maximum length
checkParameter_MinLengthFirst(parm, parms) ==
    IF ~(parm.key \in DOMAIN parms) \/ Absent(parms[parm.key])
    THEN IF Has(parm, "optional") /\ parm.optional
         THEN Accepted(IF Has(parm, "default") /\ parm.default # Undef
                       THEN parm.default ELSE Null)
         ELSE Rejected(ReasonMissing(parm.key), PARAM_MISSING)
    ELSE IF ~Has(parm, "type") THEN Undef
    ELSE LET tc == TypeCheck(parm.type, TrimStr(StringOf(parms[parm.key])))
             \* if(newValue === null) { newValue = parms[parm.key]; }
             newValue == IF tc.newValue = Null THEN parms[parm.key] ELSE tc.newValue
         IN IF Has(parm, "interpretAsNull") /\ Includes(parm.interpretAsNull, newValue)
            THEN Accepted(Null)
            ELSE IF ~tc.typeCheckPassed
                 THEN Rejected(ReasonType(parm.key, parm.type), PARAM_TYPE)
            ELSE IF Has(parm, "min") /\ LessThan(newValue, parm.min)
                 THEN Rejected(ReasonMin(parm.key, parm.min), PARAM_RANGE)
            ELSE IF Has(parm, "max") /\ GreaterThan(newValue, parm.max)
                 THEN Rejected(ReasonMax(parm.key, parm.max), PARAM_RANGE)
            ELSE IF Has(parm, "minLength") /\ LengthOf(newValue).defined
                    /\ LengthOf(newValue).n < parm.minLength
                 THEN Rejected(ReasonMinLength(parm.key, parm.minLength), PARAM_RANGE)
            ELSE IF Has(parm, "maxLength") /\ LengthOf(newValue).defined
                    /\ LengthOf(newValue).n > parm.maxLength
                 THEN Rejected(ReasonMaxLength(parm.key, parm.maxLength), PARAM_RANGE)
            ELSE IF Has(parm, "allowedValues") /\ ~Includes(parm.allowedValues, newValue)
                 THEN Rejected(ReasonAllowed(parm.key), PARAM_RANGE)
            ELSE Accepted(newValue)

\* the result of checkParameter; Undef where the function returns nothing
checkParameter(parm, parms) ==
    IF ~(parm.key \in DOMAIN parms) \/ Absent(parms[parm.key])
    THEN IF Has(parm, "optional") /\ parm.optional
         THEN Accepted(IF Has(parm, "default") /\ parm.default # Undef
                       THEN parm.default ELSE Null)
         ELSE Rejected(ReasonMissing(parm.key), PARAM_MISSING)
    ELSE IF ~Has(parm, "type") THEN Undef
    ELSE LET tc == TypeCheck(parm.type, TrimStr(StringOf(parms[parm.key])))
             \* if(newValue === null) { newValue = parms[parm.key]; }
             newValue == IF tc.newValue = Null THEN parms[parm.key] ELSE tc.newValue
         IN IF Has(parm, "interpretAsNull") /\ Includes(parm.interpretAsNull, newValue)
            THEN Accepted(Null)
            ELSE IF ~tc.typeCheckPassed
                 THEN Rejected(ReasonType(parm.key, parm.type), PARAM_TYPE)
            ELSE IF Has(parm, "min") /\ LessThan(newValue, parm.min)
                 THEN Rejected(ReasonMin(parm.key, parm.min), PARAM_RANGE)
            ELSE IF Has(parm, "max") /\ GreaterThan(newValue, parm.max)
                 THEN Rejected(ReasonMax(parm.key, parm.max), PARAM_RANGE)
            ELSE IF Has(parm, "maxLength") /\ LengthOf(newValue).defined
                    /\ LengthOf(newValue).n > parm.maxLength
                 THEN Rejected(ReasonMaxLength(parm.key, parm.maxLength), PARAM_RANGE)
            ELSE IF Has(parm, "minLength") /\ LengthOf(newValue).defined
                    /\ LengthOf(newValue).n < parm.minLength
                 THEN Rejected(ReasonMinLength(parm.key, parm.minLength), PARAM_RANGE)
            ELSE IF Has(parm, "allowedValues") /\ ~Includes(parm.allowedValues, newValue)
                 THEN Rejected(ReasonAllowed(parm.key), PARAM_RANGE)
            ELSE Accepted(newValue)

-----------------------------------------------------------------------------
(* RESULT WRAPPERS *)

\* r without the fields named in keys
Without(r, keys) == [k \in DOMAIN r \ keys |-> r[k]]
\* r with field k set to v
With(r, k, v) == [x \in DOMAIN r \cup {k} |-> IF x = k THEN v ELSE r[x]]

success(data) == [success |-> TRUE, data |-> data]
successSession(data, session) == [success |-> TRUE, data |-> data, session |-> session]

\* error(msg, code = null, token = null)
error(msg, code, token) ==
    LET r0 == [success |-> FALSE, msg |-> msg]
        r1 == IF code # Null THEN With(r0, "code", code) ELSE r0
    IN IF token # Null THEN With(r1, "token", token) ELSE r1

\* deletes data, msg, code and token where they are undefined or null
makeClientResponse(response) ==
    Without(response, {k \in {"data", "msg", "code", "token"} \cap DOMAIN response :
                           Absent(response[k])})

\* lines 126-128 of APIMethod.execute
DeleteEmptyData(methodResult) ==
    IF "data" \in DOMAIN methodResult /\ Absent(methodResult.data)
    THEN Without(methodResult, {"data"}) ELSE methodResult

-----------------------------------------------------------------------------
(* STORAGE: the tables, and the transaction primitives of the one connection *)

Hour == 60

\* INSERT, UPDATE and DELETE reach the tables at once outside a transaction
\* (autocommit) and stay pending inside one
Write(newDb) ==
    /\ db' = newDb
    /\ dbCommitted' = IF inTx THEN dbCommitted ELSE newDb
    /\ UNCHANGED inTx

\* connection.beginTransaction: START TRANSACTION ends a transaction that is
\* open on the connection by committing it
BeginTransaction ==
    /\ dbCommitted' = db
    /\ inTx' = TRUE
    /\ UNCHANGED db

\* connection.commit
CommitTransaction ==
    /\ dbCommitted' = db
    /\ inTx' = FALSE
    /\ UNCHANGED db

\* connection.rollback
RollbackTransaction ==
    /\ db' = dbCommitted
    /\ inTx' = FALSE
    /\ UNCHANGED dbCommitted

StorageUnchanged == UNCHANGED <<db, dbCommitted, inTx>>

-----------------------------------------------------------------------------
(* PERMISSIONS *)

\* A hierarchy over n keys that is expanded deeper than n levels repeats a key
\* on the active path, and the recursion of the code then never returns.
PermFuel(tbl) == Cardinality({r.permission_key : r \in Range(tbl)}
                             \cup {r.parent_key : r \in Range(tbl)}) + 1

Diverged == [diverged |-> TRUE, isNull |-> FALSE, list |-> <<>>]

RECURSIVE getPermissionDecendantsFuel(_, _, _)
RECURSIVE DecendantsLoop(_, _, _, _, _)

\* the body of the for-loop of getPermissionDecendants, from child i on
DecendantsLoop(tbl, children, i, result, fuel) ==
    IF i > Len(children) THEN [diverged |-> FALSE, isNull |-> FALSE, list |-> result]
    ELSE LET child == children[i].permission_key IN
         IF Includes(result, child)
         THEN DecendantsLoop(tbl, children, i + 1, result, fuel)
         ELSE LET sub == getPermissionDecendantsFuel(tbl, child, fuel - 1) IN
              IF sub.diverged THEN Diverged
              ELSE DecendantsLoop(tbl, children, i + 1,
                                  PushNew(Append(result, child), sub.list), fuel)

getPermissionDecendantsFuel(tbl, permission, fuel) ==
    IF fuel = 0 THEN Diverged
    ELSE DecendantsLoop(tbl,
                        SelectSeq(tbl, LAMBDA r : r.parent_key = permission),
                        1, <<>>, fuel)

\* a variant that stops at the children of the permission
getPermissionDecendants_ChildrenOnly(d, permission) ==
    [diverged |-> FALSE, isNull |-> FALSE,
     list |-> PushNew(<<>>, [i \in 1..Len(SelectSeq(d.api_permissions,
                                                    LAMBDA r : r.parent_key = permission)) |->
                                SelectSeq(d.api_permissions,
                                          LAMBDA r : r.parent_key = permission)[i].permission_key])]

getPermissionDecendants(d, permission) ==
    getPermissionDecendantsFuel(d.api_permissions, permission,
                                PermFuel(d.api_permissions))

RECURSIVE UserPermissionsLoop(_, _, _, _)
\* the body of the for-loop of getUserPermissions, from grant i on
UserPermissionsLoop(d, permissions, i, userPermissions) ==
    IF i > Len(permissions)
    THEN [diverged |-> FALSE, isNull |-> FALSE, list |-> userPermissions]
    ELSE LET key == permissions[i].permission_key IN
         IF Includes(userPermissions, key)
         THEN UserPermissionsLoop(d, permissions, i + 1, userPermissions)
         ELSE LET sub == getPermissionDecendants(d, key) IN
              IF sub.diverged THEN Diverged
              ELSE UserPermissionsLoop(d, permissions, i + 1,
                                       PushNew(Append(userPermissions, key), sub.list))

\* a variant that returns an empty list for an absent user id
getUserPermissions_EmptyForAbsent(d, userID) ==
    IF Absent(userID) THEN [diverged |-> FALSE, isNull |-> FALSE, list |-> <<>>]
    ELSE UserPermissionsLoop(d,
             SelectSeq(d.api_user_permissions, LAMBDA r : r.user_id = userID),
             1, <<>>)

\* a variant that expands the first grant of the user only
getUserPermissions_FirstGrant(d, userID) ==
    IF Absent(userID) THEN [diverged |-> FALSE, isNull |-> TRUE, list |-> <<>>]
    ELSE LET permissions == SelectSeq(d.api_user_permissions, LAMBDA r : r.user_id = userID)
         IN UserPermissionsLoop(d,
                IF permissions = <<>> THEN <<>> ELSE <<permissions[1]>>, 1, <<>>)

\* returns null for an absent user id, else the list of permission keys
getUserPermissions(d, userID) ==
    IF Absent(userID) THEN [diverged |-> FALSE, isNull |-> TRUE, list |-> <<>>]
    ELSE UserPermissionsLoop(d,
             SelectSeq(d.api_user_permissions, LAMBDA r : r.user_id = userID),
             1, <<>>)

\* a variant that looks at the user id before the required permissions
userHasPermissions_UserFirst(d, userID, permissions) ==
    IF Absent(userID) THEN [diverged |-> FALSE, value |-> FALSE]
    ELSE IF Absent(permissions) \/ permissions.a = <<>>
    THEN [diverged |-> FALSE, value |-> TRUE]
    ELSE LET up == getUserPermissions(d, userID) IN
         IF up.diverged THEN [diverged |-> TRUE, value |-> FALSE]
         ELSE [diverged |-> FALSE,
               value |-> \A i \in 1..Len(permissions.a) :
                             Includes(up.list, permissions.a[i])]

\* [diverged, value]: value is the boolean the code returns
userHasPermissions(d, userID, permissions) ==
    IF Absent(permissions) \/ permissions.a = <<>>
    THEN [diverged |-> FALSE, value |-> TRUE]
    ELSE IF Absent(userID) THEN [diverged |-> FALSE, value |-> FALSE]
    ELSE LET up == getUserPermissions(d, userID) IN
         IF up.diverged THEN [diverged |-> TRUE, value |-> FALSE]
         ELSE [diverged |-> FALSE,
               value |-> \A i \in 1..Len(permissions.a) :
                             Includes(up.list, permissions.a[i])]

\* the check awaits a permission resolution that never returns
Hangs == [hangs |-> TRUE]

MsgLoggedIn == Text(<<"This method is only available to clients that are not logged in">>)
MsgPermissions == Text(<<"You do not have the necessary permissions to call this method">>)
MsgNoSession == Text(<<"This method is only available to authenticated users">>)

\* a plausible slip: the permissions are looked at before requireNoSession
allowedToExecuteMethod_PermissionsFirst(d, session, method) ==
    IF session # Null
    THEN LET has == userHasPermissions(d, session.user_id, method.requiredPermissions) IN
         IF has.diverged THEN Hangs
         ELSE IF ~has.value THEN Rejected(MsgPermissions, PERMISSION_MISSING)
         ELSE IF method.requireNoSession THEN Rejected(MsgLoggedIn, PERMISSION_SESSION)
         ELSE Passed
    ELSE IF method.requireSession THEN Rejected(MsgNoSession, PERMISSION_NO_SESSION)
    ELSE Passed

allowedToExecuteMethod(d, session, method) ==
    IF session # Null
    THEN IF method.requireNoSession THEN Rejected(MsgLoggedIn, PERMISSION_SESSION)
         ELSE LET has == userHasPermissions(d, session.user_id, method.requiredPermissions) IN
              IF has.diverged THEN Hangs
              ELSE IF ~has.value THEN Rejected(MsgPermissions, PERMISSION_MISSING)
              ELSE Passed
    ELSE IF method.requireSession THEN Rejected(MsgNoSession, PERMISSION_NO_SESSION)
    ELSE Passed

-----------------------------------------------------------------------------
(* THE METHOD REGISTRY: APIServer.methods, in the order of registration *)

\* new APIMethod({...}) with the defaults of the constructor
APIMethod(path, handler, parameters, requireSession, requireNoSession, requiredPermissions, transaction) ==
    [path |-> path, handler |-> handler, parameters |-> parameters,
     requireSession |-> requireSession, requireNoSession |-> requireNoSession,
     requiredPermissions |-> requiredPermissions, transaction |-> transaction]

\* a variant registered with transaction : true
MulticallMethod_Transactional ==
    APIMethod("/multicall", "multicall",
              <<[key |-> "content", type |-> "json", optional |-> FALSE]>>,
              FALSE, FALSE, Arr(<<>>), TRUE)

MulticallMethod ==
    APIMethod("/multicall", "multicall",
              <<[key |-> "content", type |-> "json", optional |-> FALSE]>>,
              FALSE, FALSE, Arr(<<>>), FALSE)

LoginMethod ==
    APIMethod("/session/login", "login",
              <<[key |-> "username", type |-> "string"],
                [key |-> "password_hash", type |-> "sha256"]>>,
              FALSE, TRUE, Arr(<<>>), TRUE)

LogoutMethod ==
    APIMethod("/session/logout", "logout", <<>>, TRUE, FALSE, Arr(<<>>), TRUE)

RequestTokenMethod ==
    APIMethod("/session/request_login_token", "request_token", <<>>,
              FALSE, TRUE, Arr(<<>>), TRUE)

CheckSessionMethod ==
    APIMethod("/session/check_session", "check_session",
              <<[key |-> "token", type |-> "uuid"]>>,
              FALSE, TRUE, Arr(<<>>), TRUE)

LogoutOthersMethod ==
    APIMethod("/session/logout_others", "logout_others", <<>>,
              TRUE, FALSE, Arr(<<>>), TRUE)

KeepAliveMethod ==
    APIMethod("/session/keep_alive", "keep_alive", <<>>, TRUE, FALSE, Arr(<<>>), TRUE)

\* two methods of an application module: a reader for holders of a permission
\* and a transactional writer
ReportsMethod ==
    APIMethod("/reports/list", "reader", <<>>, TRUE, FALSE,
              Arr(<<"reports.export">>), FALSE)

NotesMethod ==
    APIMethod("/notes/add", "user",
              <<[key |-> "text", type |-> "string", maxLength |-> 2]>>,
              TRUE, FALSE, Arr(<<"notes">>), TRUE)

PostMethod ==
    APIMethod("/guestbook/post", "user",
              <<[key |-> "age", type |-> "int", min |-> 0, max |-> 120,
                 optional |-> TRUE, default |-> Num(18)]>>,
              FALSE, FALSE, Arr(<<>>), TRUE)

methods == <<MulticallMethod,
             RequestTokenMethod, CheckSessionMethod, LoginMethod, LogoutMethod,
             LogoutOthersMethod, KeepAliveMethod,
             ReportsMethod, NotesMethod, PostMethod>>

-----------------------------------------------------------------------------
(* THE TABLES *)

\* a UUID-shaped token and a SHA-256-shaped digest whose digits are all c
UuidOf(c) == [i \in 1..36 |-> IF i \in {9, 14, 19, 24} THEN "-"
                             ELSE IF i = 15 THEN "4" ELSE IF i = 20 THEN "8" ELSE c]
DigestOf(c) == Repeat(c, 64)

Alice == Num(1)
Bob == Num(2)
TokenA == Str(UuidOf("a"))
TokenB == Str(UuidOf("b"))

UserRow(id, name, hash, active) ==
    [user_id |-> id, login_name |-> name, password_hash |-> hash,
     active |-> active, admin |-> Bool(FALSE), last_login |-> 0]

SessionRow(id, user, token, start, ip, agent) ==
    [session_id |-> id, user_id |-> user, session_token |-> token,
     start_date |-> start, expiration_date |-> start + Hour, last_action |-> start,
     ip |-> ip, user_agent |-> agent]

Users == <<UserRow(Alice, Str(<<"a">>), Str(DigestOf("1")), TRUE),
           UserRow(Bob, Str(<<"b">>), Str(DigestOf("2")), TRUE)>>

\* "reports" is the parent of "reports.export"; "notes" has no parent
Hierarchy == <<[permission_key |-> "reports", parent_key |-> "NULL"],
               [permission_key |-> "reports.export", parent_key |-> "reports"],
               [permission_key |-> "notes", parent_key |-> "NULL"]>>

Grants == <<[user_id |-> Alice, permission_key |-> "reports"],
            [user_id |-> Alice, permission_key |-> "notes"]>>

\* the tables of a server that has run before: Alice and Bob hold a session each
TablesWith(sessions) ==
    [api_users |-> Users,
     api_sessions |-> sessions,
     api_login_tokens |-> <<>>,
     api_user_permissions |-> Grants,
     api_permissions |-> Hierarchy,
     notes |-> {},
     insertId |-> Len(sessions)]

InitialSessions ==
    <<SessionRow(Num(1), Alice, TokenA, 0, <<"ip of ", "a">>, <<"agent of ", "a">>),
      SessionRow(Num(2), Bob, TokenB, 0, <<"ip of ", "b">>, <<"agent of ", "b">>)>>

-----------------------------------------------------------------------------
(* SESSION UTILS *)

\* db.query SELECT ... WHERE is SelectSeq: the matching rows in table order

\* the admin flag of the joined api_view_users row, or null (LEFT JOIN)
AdminOf(d, userID) ==
    LET u == SelectSeq(d.api_users, LAMBDA r : r.user_id = userID)
    IN IF u = <<>> THEN Null ELSE u[1].admin

\* getSession(sessionID): the session projection, or Null
getSession(d, sessionID) ==
    LET sesResult == SelectSeq(d.api_sessions, LAMBDA r : r.session_id = sessionID)
    IN IF sesResult = <<>> THEN Null
       ELSE LET row == sesResult[1] IN
            [session_id |-> row.session_id,
             user_id |-> row.user_id,
             token |-> row.session_token,
             start_date |-> row.start_date,
             expiration_date |-> row.expiration_date,
             \* session.admin = (session.admin === 1 ? true : false)
             admin |-> AdminOf(d, row.user_id) = Num(1)]

\* a variant that records the last action and leaves the expiration date
TouchSession_ActionOnly(d, sessionID, time) ==
    [d EXCEPT !.api_sessions =
        [i \in 1..Len(@) |->
            IF @[i].session_id = sessionID
            THEN [@[i] EXCEPT !.last_action = time]
            ELSE @[i]]]

\* UPDATE api_sessions SET last_action=NOW(),
\*     expiration_date=DATE_ADD(NOW(), INTERVAL 1 HOUR) WHERE session_id=?
TouchSession(d, sessionID, time) ==
    [d EXCEPT !.api_sessions =
        [i \in 1..Len(@) |->
            IF @[i].session_id = sessionID
            THEN [@[i] EXCEPT !.last_action = time, !.expiration_date = time + Hour]
            ELSE @[i]]]

\* a variant that takes the first session of the table whatever the token
establishSession_FirstRow(d, sessionToken, time) ==
    IF d.api_sessions = <<>> THEN [session |-> Null, db |-> d]
    ELSE [session |-> getSession(d, d.api_sessions[1].session_id),
          db |-> TouchSession(d, d.api_sessions[1].session_id, time)]

\* establishSession(sessionToken): [session, db] - the session returned and the
\* tables after the UPDATE
establishSession(d, sessionToken, time) ==
    LET sesResult == SelectSeq(d.api_sessions, LAMBDA r : r.session_token = sessionToken)
    IN IF sesResult = <<>> THEN [session |-> Null, db |-> d]
       ELSE LET session == getSession(d, sesResult[1].session_id) IN
            IF session = Null THEN [session |-> Null, db |-> d]
            ELSE [session |-> session, db |-> TouchSession(d, session.session_id, time)]

-----------------------------------------------------------------------------
(* THE EXECUTION PIPELINE *)

Calls == {"c1", "c2"}

NoResponse == [none |-> TRUE]

Pending == [state |-> "pending"]
Resolved(v) == [state |-> "resolved", value |-> v]
RejectedWith(v) == [state |-> "rejected", value |-> v]

\* what tryExecuteMethod gives its caller
Returned(v) == [threw |-> FALSE, value |-> v]
Threw(e) == [threw |-> TRUE, error |-> e]
NotReturned == [pending |-> TRUE]

\* one run of tryExecuteMethod(method, parms, session, ...); entry is 0 for a
\* top-level call and the index in the call list for an entry of a multicall
NewFrame(method, parms, session, request, entry, pc) ==
    [method |-> method, parms |-> parms, session |-> session, request |-> request,
     entry |-> entry,
     given |-> parms,
     before |-> Null,
     pc |-> pc,
     transactionStarted |-> FALSE,
     methodResult |-> Undef,
     promise |-> Pending,
     ret |-> NotReturned,
     writes |-> 0,
     h |-> [step |-> 1],
     mc |-> [idx |-> 0],
     \* history, read by the properties only
     steps |-> <<>>,
     handlerOutcome |-> "none",
     txlog |-> <<>>]

Top(c) == fr[c][Len(fr[c])]
Running(c) == fr[c] # <<>>
SetTop(c, f) == fr' = [fr EXCEPT ![c] = [@ EXCEPT ![Len(@)] = f]]
Step(f, name) == [f EXCEPT !.steps = Append(@, name)]

\* the .catch callback of tryExecuteMethod reads the undeclared name err
\* (line 119) before it builds the error response: a ReferenceError
TryExecuteCatch(errorCode) == Threw("ReferenceError: err is not defined")

\* the .then callback of tryExecuteMethod
TryExecuteThen(methodResult) == Returned(methodResult)

\* resolve(methodResult), and tryExecuteMethod returning it
Resolve(f) ==
    LET result == DeleteEmptyData(f.methodResult) IN
    [Step(f, "RESPONDED") EXCEPT !.promise = Resolved(result),
                                 !.ret = TryExecuteThen(result),
                                 !.pc = "returned"]

\* reject(ERROR_CODES.METHOD_ERROR), and tryExecuteMethod handling it
Reject(f) ==
    [Step(f, "RESPONDED") EXCEPT !.promise = RejectedWith(METHOD_ERROR),
                                 !.ret = TryExecuteCatch(METHOD_ERROR),
                                 !.pc = "returned"]

\* tryExecuteMethod answering a failed verification
Refuse_WithoutCode(f, verification) ==
    [Step(f, "RESPONDED") EXCEPT
        !.ret = Returned(error(verification.reason, Null, Null)),
        !.pc = "returned"]

Refuse(f, verification) ==
    [Step(f, "RESPONDED") EXCEPT
        !.ret = Returned(error(verification.reason, verification.errorCode, Null)),
        !.pc = "returned"]

\* the catch block of execute: a started transaction is rolled back first
EnterCatch(f) ==
    IF f.method.transaction /\ f.transactionStarted
    THEN [f EXCEPT !.pc = "catch"]
    ELSE Reject(f)

\* after the handler returned methodResult (lines 116-129 of execute)
AfterHandler_AlwaysCommit(f, methodResult) ==
    LET g == [f EXCEPT !.methodResult = methodResult,
                       !.handlerOutcome = IF methodResult.success THEN "success"
                                          ELSE "failure"]
    IN IF g.method.transaction /\ g.transactionStarted
       THEN [g EXCEPT !.pc = "commit"]
       ELSE Resolve(g)

AfterHandler(f, methodResult) ==
    LET g == [f EXCEPT !.methodResult = methodResult,
                       !.handlerOutcome = IF methodResult.success THEN "success"
                                          ELSE "failure"]
    IN IF g.method.transaction /\ g.transactionStarted
       THEN [g EXCEPT !.pc = IF methodResult.success THEN "commit" ELSE "rollback"]
       ELSE Resolve(g)

RECURSIVE CheckParameters_NoWriteBack(_, _, _)
\* a variant of the loop that never sets the parsed value
CheckParameters_NoWriteBack(parameters, parms, i) ==
    IF i > Len(parameters) THEN [parms |-> parms, check |-> Passed]
    ELSE LET parmCheck == checkParameter(parameters[i], parms)
         IN IF parmCheck = Undef THEN [parms |-> parms, check |-> Undef]
            ELSE IF ~parmCheck.passed THEN [parms |-> parms, check |-> parmCheck]
            ELSE CheckParameters_NoWriteBack(parameters, parms, i + 1)

RECURSIVE CheckParameters(_, _, _)
\* the for-loop of canBeExecuted from parameter i on: the parameters as written
\* back, and the first failed check (Passed when none fails, Undef when
\* checkParameter returned nothing, on which parmCheck.passed throws)
CheckParameters(parameters, parms, i) ==
    IF i > Len(parameters) THEN [parms |-> parms, check |-> Passed]
    ELSE LET parm == parameters[i]
             parmCheck == checkParameter(parm, parms)
         IN IF parmCheck = Undef THEN [parms |-> parms, check |-> Undef]
            ELSE IF ~parmCheck.passed THEN [parms |-> parms, check |-> parmCheck]
            ELSE CheckParameters(parameters,
                                 IF parmCheck.newValue # Undef
                                 THEN With(parms, parm.key, parmCheck.newValue)
                                 ELSE parms,
                                 i + 1)

\* canBeExecuted, first half: the parameters
ParameterCheck(c) ==
    /\ Running(c) /\ Top(c).pc = "params"
    /\ LET f == [Step(Top(c), "PARAMETER_CHECK") EXCEPT !.before = db]
           r == CheckParameters(f.method.parameters, f.parms, 1)
       IN SetTop(c, IF r.check = Undef
                    THEN [Step(f, "RESPONDED") EXCEPT
                             !.ret = Threw("TypeError: parmCheck is undefined"),
                             !.pc = "returned"]
                    ELSE IF ~r.check.passed THEN Refuse([f EXCEPT !.parms = r.parms], r.check)
                    ELSE [f EXCEPT !.parms = r.parms, !.pc = "auth"])
    /\ UNCHANGED <<db, dbCommitted, inTx, now, out, probe>>

\* the handler is called
Invoke(f) == [Step(f, "HANDLER_RUN") EXCEPT !.pc = "handler"]

\* canBeExecuted, second half: the permissions; then execute up to its first await
AuthorizationCheck(c) ==
    /\ Running(c) /\ Top(c).pc = "auth"
    /\ LET f == Step(Top(c), "AUTHORIZATION_CHECK")
           v == allowedToExecuteMethod(db, f.session, f.method)
       IN SetTop(c, IF v = Hangs THEN [f EXCEPT !.pc = "hung"]
                    ELSE IF ~v.passed THEN Refuse(f, v)
                    ELSE IF f.method.transaction = TRUE THEN [f EXCEPT !.pc = "begin"]
                    ELSE Invoke(f))
    /\ UNCHANGED <<db, dbCommitted, inTx, now, out, probe>>

Log(f, op, ok) == [f EXCEPT !.txlog = Append(@, <<op, ok>>)]

\* await db.startTransaction()
StartTransaction(c) ==
    /\ Running(c) /\ Top(c).pc = "begin"
    /\ \E ok \in BOOLEAN :
         LET f == Log(Step(Top(c), "TRANSACTION_BEGIN"), "begin", ok) IN
         IF ok
         THEN /\ BeginTransaction
              /\ SetTop(c, Invoke([f EXCEPT !.transactionStarted = TRUE]))
         ELSE /\ StorageUnchanged
              /\ SetTop(c, EnterCatch(f))
    /\ UNCHANGED <<now, out, probe>>

\* await db.commit()
Commit(c) ==
    /\ Running(c) /\ Top(c).pc = "commit"
    /\ \E ok \in BOOLEAN :
         LET f == Log(Step(Top(c), "COMMIT"), "commit", ok) IN
         IF ok
         THEN CommitTransaction /\ SetTop(c, Resolve(f))
         ELSE StorageUnchanged /\ SetTop(c, EnterCatch(f))
    /\ UNCHANGED <<now, out, probe>>

\* await db.rollback() after the handler reported a failure
Rollback(c) ==
    /\ Running(c) /\ Top(c).pc = "rollback"
    /\ \E ok \in BOOLEAN :
         LET f == Log(Step(Top(c), "ROLLBACK"), "rollback", ok) IN
         IF ok
         THEN RollbackTransaction /\ SetTop(c, Resolve(f))
         ELSE StorageUnchanged /\ SetTop(c, EnterCatch(f))
    /\ UNCHANGED <<now, out, probe>>

\* await db.rollback() in the catch block; when it fails the executor ends
\* without calling resolve or reject
CatchRollback(c) ==
    /\ Running(c) /\ Top(c).pc = "catch"
    /\ \E ok \in BOOLEAN :
         LET f == Log(Step(Top(c), "ROLLBACK"), "rollback", ok) IN
         IF ok
         THEN RollbackTransaction /\ SetTop(c, Reject(f))
         ELSE StorageUnchanged /\ SetTop(c, [f EXCEPT !.pc = "hung"])
    /\ UNCHANGED <<now, out, probe>>

-----------------------------------------------------------------------------
(* HANDLERS OF THE APPLICATION'S METHODS *)

Note(c, f) == [call |-> c, entry |-> f.entry, n |-> f.writes + 1]

\* the handler awaits a query that writes
UserWrite(c) ==
    /\ Running(c) /\ Top(c).pc = "handler" /\ Top(c).method.handler = "user"
    /\ Cardinality(db.notes) < MaxWrites
    /\ Write([db EXCEPT !.notes = @ \cup {Note(c, Top(c))}])
    /\ SetTop(c, [Top(c) EXCEPT !.writes = @ + 1])
    /\ UNCHANGED <<now, out, probe>>

UserResults == {success(Null), success(Obj([foo |-> "bar"])),
                error(Text(<<"failed">>), Null, Null)}

\* the handler returns apiUtils.success(...) or apiUtils.error(...)
UserReturn(c) ==
    /\ Running(c) /\ Top(c).pc = "handler"
    /\ Top(c).method.handler \in {"user", "reader"}
    /\ \E methodResult \in UserResults : SetTop(c, AfterHandler(Top(c), methodResult))
    /\ UNCHANGED <<db, dbCommitted, inTx, now, out, probe>>

\* the handler throws, or a query it awaits is rejected
HandlerThrow(c) ==
    /\ Running(c) /\ Top(c).pc = "handler"
    /\ SetTop(c, EnterCatch([Top(c) EXCEPT !.handlerOutcome = "threw"]))
    /\ UNCHANGED <<db, dbCommitted, inTx, now, out, probe>>

-----------------------------------------------------------------------------
(* THE SESSION MODULE: /session/login and /session/logout *)

\* the client binding of a request: its ip and its user agent ('NO USER AGENT'
\* when the header is missing; the agents of the model are shorter than the
\* 200 characters the code cuts them to)
ClientOf(request) ==
    [ip |-> request.ip,
     user_agent |-> IF "user_agent" \in DOMAIN request.headers
                    THEN request.headers.user_agent ELSE <<"NO USER AGENT">>]

HexDigit(n) ==
    IF n < 10 THEN DigitChar(n)
    ELSE CASE n = 10 -> "a" [] n = 11 -> "b" [] n = 12 -> "c" [] n = 13 -> "d"
           [] n = 14 -> "e" [] n = 15 -> "f"

HexValue(c) ==
    IF c \in DigitChars THEN DigitValue(c)
    ELSE CASE LowerChar(c) = "a" -> 10 [] LowerChar(c) = "b" -> 11
           [] LowerChar(c) = "c" -> 12 [] LowerChar(c) = "d" -> 13
           [] LowerChar(c) = "e" -> 14 [] LowerChar(c) = "f" -> 15 [] OTHER -> 16

\* the checksum of a text: of its length, its first and its last character
Checksum(chars) ==
    IF chars = <<>> THEN 0
    ELSE (Len(chars) + 3 * HexValue(chars[1]) + 5 * HexValue(chars[Len(chars)])) % 16

\* sha256(...values): the values are joined and digested to 64 lower-case hex
\* digits; the digest of the model is a checksum of the joined text
sha256(a, b) == DigestOf(HexDigit(Checksum(a \o b)))

\* the UUIDs getUUID() can return
UuidPool == {UuidOf("c"), UuidOf("d"), UuidOf("e"), UuidOf("f")}

UsedUuids(d) == {d.api_sessions[i].session_token : i \in 1..Len(d.api_sessions)}
                \cup {Str(d.api_login_tokens[i].login_token) :
                         i \in 1..Len(d.api_login_tokens)}

\* getUUID(): a UUID that is not in use
getUUID(d) == CHOOSE u \in UuidPool : Str(u) \notin UsedUuids(d)

MsgUserNotFound == Text(<<"User not found">>)
MsgNotActivated == Text(<<"User account not activated">>)
MsgNoLoginToken == Text(<<"No valid login-token found for your client">>)
MsgWrongPassword == Text(<<"Wrong password">>)
MsgLoadSession == Text(<<"Error while loading the session">>)

StepTo(f, n, locals) == [f EXCEPT !.h = [k \in DOMAIN locals \cup {"step"} |->
                                            IF k = "step" THEN n ELSE locals[k]]]

IsLoginAt(c, n) ==
    /\ Running(c) /\ Top(c).pc = "handler" /\ Top(c).method.handler = "login"
    /\ Top(c).h.step = n

\* SELECT * FROM api_view_users WHERE login_name=? LIMIT 0,1, and the checks on it
LoginFindUser(c) ==
    /\ IsLoginAt(c, 1)
    /\ LET f == Top(c)
           userResult == SelectSeq(db.api_users,
                                   LAMBDA r : r.login_name = f.parms.username)
       IN SetTop(c, IF Len(userResult) = 0 THEN AfterHandler(f, error(MsgUserNotFound, Null, Null))
                    ELSE IF ~userResult[1].active
                         THEN AfterHandler(f, error(MsgNotActivated, Null, Null))
                    ELSE StepTo(f, 2, [user |-> userResult[1]]))
    /\ UNCHANGED <<db, dbCommitted, inTx, now, out, probe>>

\* a variant that loads the login token and accepts any digest
LoginVerify_AnyDigest(c) ==
    /\ IsLoginAt(c, 2)
    /\ LET f == Top(c)
           client == ClientOf(f.request)
           loginTokenResult ==
               SelectSeq(db.api_login_tokens,
                         LAMBDA r : r.ip = client.ip /\ r.user_agent = client.user_agent)
       IN SetTop(c,
            IF Len(loginTokenResult) = 0
            THEN AfterHandler(f, error(MsgNoLoginToken, Null, Null))
            ELSE StepTo(f, 3, [user |-> f.h.user, client |-> client]))
    /\ UNCHANGED <<db, dbCommitted, inTx, now, out, probe>>

\* SELECT * FROM api_login_tokens WHERE ip=? AND user_agent=? LIMIT 0,1, and
\* the comparison of the digests
LoginVerify(c) ==
    /\ IsLoginAt(c, 2)
    /\ LET f == Top(c)
           client == ClientOf(f.request)
           loginTokenResult ==
               SelectSeq(db.api_login_tokens,
                         LAMBDA r : r.ip = client.ip /\ r.user_agent = client.user_agent)
       IN SetTop(c,
            IF Len(loginTokenResult) = 0
            THEN AfterHandler(f, error(MsgNoLoginToken, Null, Null))
            ELSE IF ToLowerCase(sha256(f.h.user.password_hash.s,
                                       loginTokenResult[1].login_token))
                    # ToLowerCase(f.parms.password_hash.s)
                 THEN AfterHandler(f, error(MsgWrongPassword, Null, Null))
            ELSE StepTo(f, 3, [user |-> f.h.user, client |-> client]))
    /\ UNCHANGED <<db, dbCommitted, inTx, now, out, probe>>

\* a variant that leaves the login tokens in place
LoginDeleteTokens_Keep(c) ==
    /\ IsLoginAt(c, 3)
    /\ SetTop(c, [Top(c) EXCEPT !.h.step = 4])
    /\ UNCHANGED <<db, dbCommitted, inTx, now, out, probe>>

\* DELETE FROM api_login_tokens WHERE ip=? AND user_agent=?
LoginDeleteTokens(c) ==
    /\ IsLoginAt(c, 3)
    /\ LET f == Top(c) IN
       /\ Write([db EXCEPT !.api_login_tokens =
                    SelectSeq(@, LAMBDA r : ~(r.ip = f.h.client.ip
                                              /\ r.user_agent = f.h.client.user_agent))])
       /\ SetTop(c, [f EXCEPT !.h.step = 4])
    /\ UNCHANGED <<now, out, probe>>

\* INSERT INTO api_sessions (user_id, start_date, expiration_date, ip, user_agent)
LoginInsertSession(c) ==
    /\ IsLoginAt(c, 4)
    /\ LET f == Top(c)
           sessionID == Num(db.insertId + 1)
           row == SessionRow(sessionID, f.h.user.user_id, Null, now,
                             f.h.client.ip, f.h.client.user_agent)
       IN /\ Write([db EXCEPT !.api_sessions = Append(@, row), !.insertId = @ + 1])
          /\ SetTop(c, StepTo(f, 5, [user |-> f.h.user, sessionID |-> sessionID]))
    /\ UNCHANGED <<now, out, probe>>

\* UPDATE api_sessions SET session_token=? WHERE session_id=?
LoginStoreToken(c) ==
    /\ IsLoginAt(c, 5)
    /\ LET f == Top(c)
           sessionToken == Str(getUUID(db))
       IN /\ Write([db EXCEPT !.api_sessions =
                       [i \in 1..Len(@) |->
                           IF @[i].session_id = f.h.sessionID
                           THEN [@[i] EXCEPT !.session_token = sessionToken]
                           ELSE @[i]]])
          /\ SetTop(c, [f EXCEPT !.h.step = 6])
    /\ UNCHANGED <<now, out, probe>>

\* let loadedSession = await apiUtils.getSession(sessionID)
LoginLoadSession(c) ==
    /\ IsLoginAt(c, 6)
    /\ LET f == Top(c)
           loadedSession == getSession(db, f.h.sessionID)
       IN SetTop(c, IF loadedSession = Null
                    THEN AfterHandler(f, error(MsgLoadSession, Null, Null))
                    ELSE StepTo(f, 7, [user |-> f.h.user, loadedSession |-> loadedSession]))
    /\ UNCHANGED <<db, dbCommitted, inTx, now, out, probe>>

\* UPDATE api_users SET last_login=NOW() WHERE user_id=?, and the response
LoginRecord(c) ==
    /\ IsLoginAt(c, 7)
    /\ LET f == Top(c) IN
       /\ Write([db EXCEPT !.api_users =
                    [i \in 1..Len(@) |->
                        IF @[i].user_id = f.h.user.user_id
                        THEN [@[i] EXCEPT !.last_login = now] ELSE @[i]]])
       /\ SetTop(c, AfterHandler(f, successSession(
                        Obj([session |-> f.h.loadedSession]), f.h.loadedSession)))
    /\ UNCHANGED <<now, out, probe>>

\* deleteSession(sessionID): DELETE FROM api_sessions WHERE session_id=?
deleteSession_KeepRow(d, sessionID) == d

deleteSession(d, sessionID) ==
    [d EXCEPT !.api_sessions = SelectSeq(@, LAMBDA r : r.session_id # sessionID)]

\* the handler of /session/logout: the result of the DELETE is an object, which
\* is truthy, so the handler answers successSession(null, null)
Logout(c) ==
    /\ Running(c) /\ Top(c).pc = "handler" /\ Top(c).method.handler = "logout"
    /\ Write(deleteSession(db, Top(c).session.session_id))
    /\ SetTop(c, AfterHandler(Top(c), successSession(Null, Null)))
    /\ UNCHANGED <<now, out, probe>>

\* the UUIDs generated by handlers that have not stored them yet
InFlightUuids ==
    {f.h.token : f \in {g \in UNION {Range(fr[c]) : c \in Calls} : "token" \in DOMAIN g.h}}

IsCreateTokenAt(c, n) ==
    /\ Running(c) /\ Top(c).pc = "handler"
    /\ \/ Top(c).method.handler = "request_token" /\ Top(c).h.step = n
       \/ Top(c).method.handler = "check_session" /\ Top(c).h.step = n + 1

\* the handler of /session/check_session up to createToken: SELECT * FROM
\* api_sessions WHERE session_token=?; for a session that is found the handler
\* loads it (the list of allowed endpoints comes from a helper that is not
\* part of the sources and is left out of the response)
CheckSessionLookup(c) ==
    /\ Running(c) /\ Top(c).pc = "handler"
    /\ Top(c).method.handler = "check_session" /\ Top(c).h.step = 1
    /\ LET f == Top(c)
           sessionResult == SelectSeq(db.api_sessions,
                                      LAMBDA r : r.session_token = f.parms.token)
       IN SetTop(c, IF sessionResult = <<>> THEN [f EXCEPT !.h.step = 2]
                    ELSE AfterHandler(f, success(Obj(
                             [session_valid |-> Bool(TRUE),
                              session |-> getSession(db, sessionResult[1].session_id)]))))
    /\ UNCHANGED <<db, dbCommitted, inTx, now, out, probe>>

\* createToken: getUUID(), and DELETE FROM api_login_tokens WHERE ip=? AND user_agent=?
CreateTokenDelete(c) ==
    /\ IsCreateTokenAt(c, 1)
    /\ LET f == Top(c)
           client == ClientOf(f.request)
           token == CHOOSE u \in UuidPool : Str(u) \notin UsedUuids(db) /\ u \notin InFlightUuids
       IN /\ Write([db EXCEPT !.api_login_tokens =
                       SelectSeq(@, LAMBDA r : ~(r.ip = client.ip
                                                 /\ r.user_agent = client.user_agent))])
          /\ SetTop(c, [f EXCEPT !.h = [step |-> f.h.step + 1, token |-> token]])
    /\ UNCHANGED <<now, out, probe>>

\* createToken: INSERT INTO api_login_tokens ... DATE_ADD(NOW(), INTERVAL 1 HOUR),
\* and the response of the handler that called it
CreateTokenInsert(c) ==
    /\ IsCreateTokenAt(c, 2)
    /\ LET f == Top(c)
           client == ClientOf(f.request)
           row == [ip |-> client.ip, user_agent |-> client.user_agent,
                   login_token |-> f.h.token, expiration_date |-> now + Hour]
       IN /\ Write([db EXCEPT !.api_login_tokens = Append(@, row)])
          /\ SetTop(c, AfterHandler(f,
                IF f.method.handler = "request_token"
                THEN success(Obj([token |-> Str(f.h.token)]))
                ELSE success(Obj([session_valid |-> Bool(FALSE),
                                  token |-> Str(f.h.token)]))))
    /\ UNCHANGED <<now, out, probe>>

\* a variant that deletes every session of the user
LogoutOthers_Every(c) ==
    /\ Running(c) /\ Top(c).pc = "handler" /\ Top(c).method.handler = "logout_others"
    /\ LET f == Top(c) IN
       /\ Write([db EXCEPT !.api_sessions =
                    SelectSeq(@, LAMBDA r : r.user_id # f.session.user_id)])
       /\ SetTop(c, AfterHandler(f, success(Null)))
    /\ UNCHANGED <<now, out, probe>>

\* the handler of /session/logout_others: the other sessions of the user are
\* selected and deleted one by one; apiUtils.success() carries no data
LogoutOthers(c) ==
    /\ Running(c) /\ Top(c).pc = "handler" /\ Top(c).method.handler = "logout_others"
    /\ LET f == Top(c) IN
       /\ Write([db EXCEPT !.api_sessions =
                    SelectSeq(@, LAMBDA r : ~(r.user_id = f.session.user_id
                                              /\ r.session_id # f.session.session_id))])
       /\ SetTop(c, AfterHandler(f, success(Null)))
    /\ UNCHANGED <<now, out, probe>>

\* the handler of /session/keep_alive: after the UPDATE of the expiration date
\* the handler evaluates db.query(...)[0].expiration_date; db.query returns a
\* Promise, whose property 0 is undefined, so reading expiration_date throws a
\* TypeError before anything is returned
KeepAlive(c) ==
    /\ Running(c) /\ Top(c).pc = "handler" /\ Top(c).method.handler = "keep_alive"
    /\ LET f == Top(c) IN
       /\ Write([db EXCEPT !.api_sessions =
                    [i \in 1..Len(@) |->
                        IF @[i].session_id = f.session.session_id
                        THEN [@[i] EXCEPT !.expiration_date = now + Hour]
                        ELSE @[i]]])
       /\ SetTop(c, EnterCatch([f EXCEPT !.h.step = 2, !.handlerOutcome = "threw"]))
    /\ UNCHANGED <<now, out, probe>>

-----------------------------------------------------------------------------
(* THE MULTICALL MODULE: the handler of /multicall *)

MsgNoCalls == Text(<<"No calls transmitted for the multicall.">>)

PathOf(method) == Text(<<method.path>>)

\* methods.find((method) => method.path === call.method)
FindCalled(call) ==
    LET hits == {i \in 1..Len(methods) :
                    "method" \in DOMAIN call /\ PathOf(methods[i]) = call.method}
    IN IF hits = {} THEN Undef
       ELSE methods[CHOOSE i \in hits : \A j \in hits : i <= j]

\* parms.content.calls, Undef where the content has no such property
CallsOf(content) ==
    IF content.t = "object" /\ "calls" \in DOMAIN content.o THEN content.o.calls
    ELSE Undef

\* the catch block of the loop names ERROR_CODES, which the module does not
\* import (line 4): building the MULTICALL_ERROR response throws a ReferenceError
MulticallCatch(call) == Threw("ReferenceError: ERROR_CODES is not defined")

IsMulticallAt(c, pc) ==
    /\ Len(fr[c]) = 1 /\ Top(c).pc = pc /\ Top(c).method.handler = "multicall"

\* return apiUtils.success({ responses : responses })
MulticallReturn(f, responses) ==
    AfterHandler(f, success(Obj([responses |-> Arr(responses)])))

\* lines 20-24: the check of the call list
MulticallStart(c) ==
    /\ IsMulticallAt(c, "handler")
    /\ LET f == Top(c)
           calls == CallsOf(f.parms.content)
       IN SetTop(c, IF Absent(calls) \/ calls.t # "array"
                    THEN AfterHandler(f, error(MsgNoCalls, Null, Null))
                    ELSE [f EXCEPT !.pc = "loop",
                                   !.mc = [idx |-> 1, calls |-> calls.a,
                                           responses |-> <<>>,
                                           session |-> f.session,
                                           ran |-> <<>>]])
    /\ UNCHANGED <<db, dbCommitted, inTx, now, out, probe>>

\* one turn of the for-loop up to its await: the look-up of the entry's method
MulticallNext(c) ==
    /\ IsMulticallAt(c, "loop")
    /\ LET f == Top(c)
           mc == f.mc
       IN IF mc.idx > Len(mc.calls)
          THEN SetTop(c, MulticallReturn(f, mc.responses))
          ELSE LET call == mc.calls[mc.idx]
                   method == FindCalled(call)
               IN IF method = Undef
                  THEN SetTop(c, [f EXCEPT !.mc.idx = @ + 1])
                  ELSE fr' = [fr EXCEPT ![c] =
                                 <<[f EXCEPT !.pc = "await"],
                                   NewFrame(method, call, mc.session, f.request,
                                            mc.idx, "params")>>]
    /\ UNCHANGED <<db, dbCommitted, inTx, now, out, probe>>

\* responses.push(apiUtils.makeClientResponse(callResponse))
Pushed_SuccessesOnly(responses, callResponse) ==
    IF callResponse.success THEN Append(responses, makeClientResponse(callResponse))
    ELSE responses

Pushed(responses, callResponse) == Append(responses, makeClientResponse(callResponse))

\* lines 36-38: the session the loop goes on with
PropagatedSession_Never(session, callResponse) == session

\* a variant that drops the session after an entry that failed
PropagatedSession_LostOnFailure(session, callResponse) ==
    IF "session" \in DOMAIN callResponse /\ callResponse.session # Null
    THEN callResponse.session
    ELSE IF callResponse.success THEN session ELSE Null

PropagatedSession(session, callResponse) ==
    IF "session" \in DOMAIN callResponse /\ callResponse.session # Null
    THEN callResponse.session
    ELSE session

\* line 41: whether the loop is left after this response
Breaks_OnAnyFailure(call, callResponse) == callResponse.success = FALSE

Breaks(call, callResponse) ==
    /\ "breaking" \in DOMAIN call
    /\ call.breaking = Bool(TRUE)
    /\ callResponse.success = FALSE

\* line 46: if(call.breaking), the truthiness of the flag
BreaksInCatch(call) ==
    /\ "breaking" \in DOMAIN call
    /\ call.breaking \notin {Null, Undef, Bool(FALSE), Num(0), Str(<<>>)}

\* lines 32-49: what the loop does with the outcome of tryExecuteMethod
MulticallCollect(c) ==
    /\ Len(fr[c]) = 2 /\ Top(c).pc = "returned"
    /\ LET f == fr[c][1]
           sub == Top(c)
           call == sub.parms
           g == [f EXCEPT !.mc.ran = Append(@, sub), !.mc.calls[f.mc.idx] = call]
       IN fr' = [fr EXCEPT ![c] = <<
            IF sub.ret.threw
            THEN IF MulticallCatch(call).threw
                 THEN EnterCatch([g EXCEPT !.handlerOutcome = "threw"])
                 ELSE LET responses == Append(g.mc.responses, MulticallCatch(call).value)
                          h == [g EXCEPT !.mc.responses = responses]
                      IN IF BreaksInCatch(call) THEN MulticallReturn(h, responses)
                         ELSE [h EXCEPT !.pc = "loop", !.mc.idx = @ + 1]
            ELSE LET callResponse == sub.ret.value
                     responses == Pushed(g.mc.responses, callResponse)
                     h == [g EXCEPT !.mc.responses = responses,
                                    !.mc.session = PropagatedSession(@, callResponse)]
                 IN IF Breaks(call, callResponse) THEN MulticallReturn(h, responses)
                    ELSE [h EXCEPT !.pc = "loop", !.mc.idx = @ + 1] >>]
    /\ UNCHANGED <<db, dbCommitted, inTx, now, out, probe>>

-----------------------------------------------------------------------------
(* APIServer.methodHandlerWrapper *)

\* the request of a call: its network origin and its user-agent header
RequestOf(c) == [ip |-> <<"ip of ", c>>, headers |-> [user_agent |-> <<"agent of ", c>>]]

MsgHandling == Text(<<"An Error occured while handling your request.">>)

\* the request's 'end' event up to the first await: the merged parameters
ReceiveFrom(c, request, method, parms) ==
    /\ fr[c] = <<>> /\ out[c] = NoResponse
    /\ fr' = [fr EXCEPT ![c] =
                <<NewFrame(method, parms, Null, request, 0, "establish")>>]
    /\ UNCHANGED <<db, dbCommitted, inTx, now, out, probe>>

Receive(c, method, parms) == ReceiveFrom(c, RequestOf(c), method, parms)

\* if a token of the length of a UUID was transmitted, load its session
EstablishSession(c) ==
    /\ Running(c) /\ Top(c).pc = "establish"
    /\ LET f == Top(c)
           given == "token" \in DOMAIN f.parms /\ ~Absent(f.parms.token)
                    /\ LengthOf(f.parms.token) = [defined |-> TRUE, n |-> 36]
           e == IF given THEN establishSession(db, f.parms.token, now)
                ELSE [session |-> Null, db |-> db]
       IN /\ Write(e.db)
          /\ SetTop(c, [f EXCEPT !.session = e.session, !.pc = "params"])
    /\ UNCHANGED <<now, out, probe>>

\* response.json(makeClientResponse(methodResponse)), or the catch block
Respond(c) ==
    /\ Len(fr[c]) = 1 /\ Top(c).pc = "returned"
    /\ out' = [out EXCEPT ![c] =
                  IF Top(c).ret.threw
                  THEN makeClientResponse(error(MsgHandling, HANDLER_ERROR, Null))
                  ELSE makeClientResponse(Top(c).ret.value)]
    /\ SetTop(c, [Top(c) EXCEPT !.pc = "done"])
    /\ UNCHANGED <<db, dbCommitted, inTx, now, probe>>

-----------------------------------------------------------------------------
(* THE REQUESTS OF THE MODEL *)

EmptyParms == [k \in {} |-> Null]

\* the session tokens a client sends: none, Alice's, Bob's
TokenChoices == {Undef, TokenA, TokenB}

\* the values a client sends for the parameter of a method
ValueChoices(method) ==
    IF method = NotesMethod THEN {Undef, Str(<<"h", "i">>), Str(<<"h", "e", "y">>)}
    ELSE IF method = PostMethod THEN {Undef, Str(<<"1", "5">>), Str(<<"-", "1">>)}
    ELSE {Undef}

\* the merged GET and POST parameters of a request
RequestParms(method, token, value) ==
    LET p0 == IF token = Undef THEN EmptyParms ELSE With(EmptyParms, "token", token)
    IN IF value = Undef \/ method.parameters = <<>> THEN p0
       ELSE With(p0, method.parameters[1].key, value)

TopMethods == {ReportsMethod, NotesMethod, PostMethod}

\* the login token issued to the client of c1 before the run
IssuedToken == UuidOf("9")

UpperChar(c) ==
    CASE c = "a" -> "A" [] c = "b" -> "B" [] c = "c" -> "C" [] c = "d" -> "D"
      [] c = "e" -> "E" [] c = "f" -> "F" [] OTHER -> c

\* the digest a client computes from Alice's password hash and the issued
\* token, sent in upper case; and a digest that is not the expected one
RightDigest == [i \in 1..64 |-> UpperChar(sha256(DigestOf("1"), IssuedToken)[i])]
WrongDigest == DigestOf(HexDigit((HexValue(RightDigest[1]) + 1) % 16))

Entry(path) == [method |-> Text(<<path>>)]
Breaking(call) == With(call, "breaking", Bool(TRUE))

LoginEntry(digest) ==
    With(With(Entry("/session/login"), "username", Str(<<"a">>)),
         "password_hash", Str(digest))

\* the entries of the call lists of the model; those that can fail by what
\* the client sent also come marked breaking
PlainEntries ==
    {LoginEntry(RightDigest), Entry("/session/logout"), Entry("/reports/list"),
     With(Entry("/notes/add"), "text", Str(<<"h", "i">>)),
     Entry("/unknown")}

EntryChoices ==
    PlainEntries \cup {Breaking(LoginEntry(WrongDigest)), Breaking(Entry("/reports/list"))}

CallLists == UNION {[1..n -> EntryChoices] : n \in 0..MaxEntries}

\* the content parameter: the JSON text of a document with a call list, of a
\* document without one, and a text that is no JSON
ContentChoices ==
    {JsonText(Obj([calls |-> Arr(list)])) : list \in CallLists}
    \cup {JsonText(Obj([call |-> Arr(<<>>)])), Str(<<"{">>)}

InitWith(tables) ==
    /\ db = tables
    /\ dbCommitted = db
    /\ inTx = FALSE
    /\ now = 0
    /\ fr = [c \in Calls |-> <<>>]
    /\ out = [c \in Calls |-> NoResponse]
    /\ probe = [stage |-> "none"]

Init ==
    InitWith([TablesWith(InitialSessions) EXCEPT !.api_login_tokens =
                 <<[ip |-> RequestOf("c1").ip,
                    user_agent |-> ClientOf(RequestOf("c1")).user_agent,
                    login_token |-> IssuedToken,
                    expiration_date |-> Hour]>>])

\* a call of a method of the application
Request(c) ==
    \E method \in TopMethods, token \in TokenChoices :
        \E value \in ValueChoices(method) :
            Receive(c, method, RequestParms(method, token, value))

\* a call of /multicall
RequestMulticall(c) ==
    \E token \in {Undef, TokenA}, content \in ContentChoices :
        Receive(c, MulticallMethod, RequestParms(MulticallMethod, token, content))

Pipeline(c) ==
    \/ EstablishSession(c)
    \/ ParameterCheck(c)
    \/ AuthorizationCheck(c)
    \/ StartTransaction(c)
    \/ UserWrite(c)
    \/ UserReturn(c)
    \/ HandlerThrow(c)
    \/ Commit(c)
    \/ Rollback(c)
    \/ CatchRollback(c)
    \/ Respond(c)

SessionModule(c) ==
    \/ LoginFindUser(c)
    \/ LoginVerify(c)
    \/ LoginDeleteTokens(c)
    \/ LoginInsertSession(c)
    \/ LoginStoreToken(c)
    \/ LoginLoadSession(c)
    \/ LoginRecord(c)
    \/ Logout(c)

MulticallModule(c) ==
    \/ MulticallStart(c)
    \/ MulticallNext(c)
    \/ MulticallCollect(c)

\* one client: a call of an application method, or a multicall
Next ==
    \/ Request("c1")
    \/ RequestMulticall("c1")
    \/ Pipeline("c1")
    \/ SessionModule("c1")
    \/ MulticallModule("c1")

Spec == Init /\ [][Next]_vars

-----------------------------------------------------------------------------
(* TWO CLIENTS AT ONCE: anonymous calls of the transactional /guestbook/post *)

InitConc == InitWith(TablesWith(InitialSessions))

RequestPost(c) == Receive(c, PostMethod, EmptyParms)

NextConc == \E c \in Calls : RequestPost(c) \/ Pipeline(c)

SpecConc == InitConc /\ [][NextConc]_vars

-----------------------------------------------------------------------------
(* ONE CLIENT AND A METHOD THAT REQUIRES A PERMISSION BUT NO SESSION *)

\* a method of an application module registered with requireSession : false
\* and a required permission
ExportMethod ==
    APIMethod("/reports/export", "reader", <<>>, FALSE, FALSE,
              Arr(<<"reports.export">>), FALSE)

RequestExport(c) ==
    \E token \in TokenChoices : Receive(c, ExportMethod, RequestParms(ExportMethod, token, Undef))

NextOpen == Request("c1") \/ RequestExport("c1") \/ Pipeline("c1")

SpecOpen == Init /\ [][NextOpen]_vars

-----------------------------------------------------------------------------
(* THE AUTHORIZATION CHECK ON ITS OWN *)

\* the grants of Alice; Bob holds none
GrantChoices ==
    {<<>>,
     <<[user_id |-> Alice, permission_key |-> "notes"]>>,
     <<[user_id |-> Alice, permission_key |-> "reports.export"]>>,
     Grants}

RequiredChoices ==
    {Null, Arr(<<>>), Arr(<<"notes">>), Arr(<<"reports.export">>),
     Arr(<<"reports.export", "notes">>), Arr(<<"reports">>)}

SessionChoices ==
    {Null} \cup {getSession(TablesWith(InitialSessions), Num(i)) : i \in 1..2}

InitAuth ==
    /\ \E grants \in GrantChoices :
         db = [TablesWith(InitialSessions) EXCEPT !.api_user_permissions = grants]
    /\ dbCommitted = db
    /\ inTx = FALSE
    /\ now = 0
    /\ fr = [c \in Calls |-> <<>>]
    /\ out = [c \in Calls |-> NoResponse]
    /\ \E session \in SessionChoices, rs \in BOOLEAN, rns \in BOOLEAN :
         \E required \in RequiredChoices :
           probe = [stage |-> "asked", session |-> session,
                    method |-> APIMethod("/probe", "user", <<>>, rs, rns, required, FALSE)]

Authorize ==
    /\ probe.stage = "asked"
    /\ probe' = [stage |-> "answered", session |-> probe.session,
                 method |-> probe.method,
                 verdict |-> allowedToExecuteMethod(db, probe.session, probe.method)]
    /\ UNCHANGED <<db, dbCommitted, inTx, now, fr, out>>

NextAuth == Authorize

SpecAuth == InitAuth /\ [][NextAuth]_vars

-----------------------------------------------------------------------------
(* getUserPermissions ALONE: every acyclic hierarchy over three keys, a key
   with several parents included, and every list of at most MaxGrants grants *)

MaxGrants == 2

KeyChoices == {"reports", "reports.export", "notes"}

EdgeChoices == {e \in KeyChoices \X KeyChoices : e[1] # e[2]}

Acyclic(edges) ==
    \E rank \in [KeyChoices -> 1..Cardinality(KeyChoices)] :
        \A e \in edges : rank[e[1]] < rank[e[2]]

RECURSIVE RowsOf(_)
RowsOf(rows) ==
    IF rows = {} THEN <<>>
    ELSE LET r == CHOOSE x \in rows : TRUE IN <<r>> \o RowsOf(rows \ {r})

\* the table api_permissions of a hierarchy: one row for each edge, and one
\* row with parent NULL for each key without a parent
HierarchyOf(edges) ==
    RowsOf({[permission_key |-> e[2], parent_key |-> e[1]] : e \in edges}
           \cup {[permission_key |-> k, parent_key |-> "NULL"] :
                    k \in {x \in KeyChoices : \A e \in edges : e[2] # x}})

GrantRows ==
    {[user_id |-> Alice, permission_key |-> k] : k \in KeyChoices}
    \cup {[user_id |-> Bob, permission_key |-> "reports"]}

InitPerm ==
    /\ \E edges \in {e \in SUBSET EdgeChoices : Acyclic(e)} :
         \E n \in 0..MaxGrants :
           \E grants \in [1..n -> GrantRows] :
             db = [TablesWith(InitialSessions) EXCEPT !.api_permissions = HierarchyOf(edges),
                                                      !.api_user_permissions = grants]
    /\ dbCommitted = db
    /\ inTx = FALSE
    /\ now = 0
    /\ fr = [c \in Calls |-> <<>>]
    /\ out = [c \in Calls |-> NoResponse]
    /\ \E user \in {Alice, Bob} : probe = [stage |-> "asked", user |-> user]

LoadPermissions ==
    /\ probe.stage = "asked"
    /\ probe' = [stage |-> "loaded", user |-> probe.user,
                 result |-> getUserPermissions(db, probe.user)]
    /\ UNCHANGED <<db, dbCommitted, inTx, now, fr, out>>

NextPerm == LoadPermissions

SpecPerm == InitPerm /\ [][NextPerm]_vars

-----------------------------------------------------------------------------
(* PERMISSION RESOLUTION OVER EVERY HIERARCHY of three keys, those with a
   cycle included *)

InitCycle ==
    /\ \E edges \in SUBSET EdgeChoices :
         \E n \in 0..MaxGrants :
           \E grants \in [1..n -> GrantRows] :
             db = [TablesWith(InitialSessions) EXCEPT !.api_permissions = HierarchyOf(edges),
                                                      !.api_user_permissions = grants]
    /\ dbCommitted = db
    /\ inTx = FALSE
    /\ now = 0
    /\ fr = [c \in Calls |-> <<>>]
    /\ out = [c \in Calls |-> NoResponse]
    /\ probe = [stage |-> "asked", user |-> Alice]

\* getUserPermissions(userID), or the fact that it never returns
ResolvePermissions ==
    /\ probe.stage = "asked"
    /\ probe' = [stage |-> "resolved", user |-> probe.user,
                 result |-> getUserPermissions(db, probe.user)]
    /\ UNCHANGED <<db, dbCommitted, inTx, now, fr, out>>

NextCycle == ResolvePermissions

SpecCycle == InitCycle /\ [][NextCycle]_vars

-----------------------------------------------------------------------------
(* userHasPermissions AND getUserPermissions for present and absent users,
   over the acyclic hierarchies *)

UserChoices == {Alice, Bob, Null, Undef}

RequiredLists ==
    {Null, Undef, Arr(<<>>), Arr(<<"notes">>), Arr(<<"reports.export">>),
     Arr(<<"reports", "notes">>)}

InitHas ==
    /\ \E edges \in {e \in SUBSET EdgeChoices : Acyclic(e)} :
         \E n \in 0..MaxGrants :
           \E grants \in [1..n -> GrantRows] :
             db = [TablesWith(InitialSessions) EXCEPT !.api_permissions = HierarchyOf(edges),
                                                      !.api_user_permissions = grants]
    /\ dbCommitted = db
    /\ inTx = FALSE
    /\ now = 0
    /\ fr = [c \in Calls |-> <<>>]
    /\ out = [c \in Calls |-> NoResponse]
    /\ \E user \in UserChoices : probe = [stage |-> "asked", user |-> user]

\* userHasPermissions(userID, permissions)
HasPermissions ==
    /\ probe.stage = "resolved"
    /\ \E required \in RequiredLists :
         probe' = [stage |-> "checked", user |-> probe.user, result |-> probe.result,
                   required |-> required,
                   has |-> userHasPermissions(db, probe.user, required)]
    /\ UNCHANGED <<db, dbCommitted, inTx, now, fr, out>>

NextHas == ResolvePermissions \/ HasPermissions

SpecHas == InitHas /\ [][NextHas]_vars

-----------------------------------------------------------------------------
(* checkParameter ALONE: parameter definitions written as the typedef
   describes them (min and max on number types, lengths and allowed values on
   texts), and the values a client can send for the parameter *)

\* a parameter definition with the fields of extra added to those of base
Extend(base, extra) ==
    [k \in DOMAIN base \cup DOMAIN extra |-> IF k \in DOMAIN extra THEN extra[k] ELSE base[k]]

Typed(type) == [key |-> "p", type |-> type]

OptionalFields ==
    {EmptyParms, [optional |-> FALSE], [optional |-> TRUE],
     [optional |-> TRUE, default |-> Undef], [optional |-> TRUE, default |-> Null],
     [optional |-> TRUE, default |-> Num(7)], [optional |-> TRUE, default |-> Str(<<"d">>)],
     [optional |-> FALSE, default |-> Num(7)]}

NullFields ==
    {[interpretAsNull |-> <<Str(<<"0">>)>>],
     [interpretAsNull |-> <<Num(0)>>],
     [interpretAsNull |-> <<Str(<<" ">>), Str(<<"x">>)>>],
     [interpretAsNull |-> <<Bool(TRUE), Str(<<"-", "1">>)>>]}

NumberFields ==
    {EmptyParms, [min |-> 0], [max |-> 10], [min |-> 0, max |-> 10], [min |-> 5, max |-> 10],
     [min |-> 6, max |-> 3],
     [min |-> 0, allowedValues |-> <<Num(5), Num(12)>>]}

TextFields ==
    {EmptyParms, [maxLength |-> 3], [minLength |-> 2], [minLength |-> 2, maxLength |-> 3],
     [minLength |-> 4, maxLength |-> 2],
     [allowedValues |-> <<Str(<<"a", "b">>), Str(<<"x">>)>>],
     [maxLength |-> 3, allowedValues |-> <<Str(<<"a", "b">>)>>],
     [minLength |-> 2, allowedValues |-> <<Str(<<"a", "b">>), Str(<<"x">>)>>]}

ParmSpecs ==
    {Extend(Typed(type), f) : type \in {"int", "string"}, f \in OptionalFields}
    \cup {Extend([key |-> "p"], f) : f \in OptionalFields}
    \cup {Extend(Typed(type), f) : type \in {"int", "string", "boolean"}, f \in NullFields}
    \cup {Extend(Typed(type), f) : type \in {"int", "integer", "float"}, f \in NumberFields}
    \cup {Extend(Typed(type), f) : type \in {"string", "char"}, f \in TextFields}

\* the parameters of a request: without the key, with the key undefined or
\* null, with a text, and from a JSON body with a number or a boolean
RawChoices ==
    {Undef, Null, Num(0), Num(5), Bool(TRUE)}
    \cup {Str(chars) : chars \in {<<>>, <<" ">>, <<"0">>, <<"5">>, <<" ", "7", " ">>,
                                  <<"-", "1">>, <<"1", "2">>, <<"3", ".", "5">>,
                                  <<"x">>, <<"a", "b">>, <<"a", "b", "c">>,
                                  <<"a", "b", "c", "d">>,
                                  <<"t", "r", "u", "e">>}}

ParmsChoices == {EmptyParms} \cup {[p |-> raw] : raw \in RawChoices}

InitParam ==
    /\ db = TablesWith(InitialSessions)
    /\ dbCommitted = db
    /\ inTx = FALSE
    /\ now = 0
    /\ fr = [c \in Calls |-> <<>>]
    /\ out = [c \in Calls |-> NoResponse]
    /\ \E parm \in ParmSpecs, parms \in ParmsChoices :
         probe = [stage |-> "asked", parm |-> parm, parms |-> parms]

\* apiUtils.checkParameter(parm, parms)
CheckOne ==
    /\ probe.stage = "asked"
    /\ probe' = [stage |-> "checked", parm |-> probe.parm, parms |-> probe.parms,
                 result |-> checkParameter(probe.parm, probe.parms)]
    /\ UNCHANGED <<db, dbCommitted, inTx, now, fr, out>>

NextParam == CheckOne

SpecParam == InitParam /\ [][NextParam]_vars

\* checkParameter on dates and datetimes: the inputs are built from a year, a
\* month and a day number and, for datetimes, a time of day
TwoDigits(n) == <<DigitChar(n \div 10), DigitChar(n % 10)>>

YearChoices == {<<"2", "0", "2", "4">>, <<"0", "0", "0", "0">>}
MonthChoices == 0..13
DayChoices == 0..32
TimeChoices == {<<0, 0, 0>>, <<23, 59, 59>>, <<9, 30, 5>>, <<24, 0, 0>>, <<12, 60, 0>>,
                <<12, 0, 60>>}

DateText(year, month, day) == year \o <<"-">> \o TwoDigits(month) \o <<"-">> \o TwoDigits(day)
TimeText(time) ==
    <<" ">> \o TwoDigits(time[1]) \o <<":">> \o TwoDigits(time[2]) \o <<":">> \o TwoDigits(time[3])

DateInputs ==
    {DateText(year, month, day) : year \in YearChoices, month \in MonthChoices, day \in DayChoices}
DatetimeInputs ==
    {DateText(<<"2", "0", "2", "4">>, month, day) \o TimeText(time) :
        month \in {0, 1, 9, 10, 12, 13}, day \in {0, 1, 10, 29, 31, 32}, time \in TimeChoices}

InitDate ==
    /\ db = TablesWith(InitialSessions)
    /\ dbCommitted = db
    /\ inTx = FALSE
    /\ now = 0
    /\ fr = [c \in Calls |-> <<>>]
    /\ out = [c \in Calls |-> NoResponse]
    /\ \/ \E chars \in DateInputs \cup DatetimeInputs :
            probe = [stage |-> "asked", parm |-> [key |-> "p", type |-> "date"],
                     parms |-> [p |-> Str(chars)]]
       \/ \E chars \in DatetimeInputs \cup {DateText(<<"2", "0", "2", "4">>, 1, 1)} :
            probe = [stage |-> "asked", parm |-> [key |-> "p", type |-> "datetime"],
                     parms |-> [p |-> Str(chars)]]

NextDate == CheckOne

SpecDate == InitDate /\ [][NextDate]_vars

-----------------------------------------------------------------------------
(* establishSession ALONE: every table of sessions of Alice and Bob, begun
   now or an hour ago, every time up to MaxTime, known and unknown tokens *)

MaxTime == 2

StartChoices == {0 - Hour, 0}

SessionTables ==
    {<<>>}
    \cup {<<SessionRow(Num(1), u, t, s, <<"ip of ", "a">>, <<"agent of ", "a">>)>> :
             u \in {Alice, Bob}, t \in {TokenA, TokenB}, s \in StartChoices}
    \cup {<<SessionRow(Num(1), Alice, TokenA, s1, <<"ip of ", "a">>, <<"agent of ", "a">>),
            SessionRow(Num(2), Bob, TokenB, s2, <<"ip of ", "b">>, <<"agent of ", "b">>)>> :
             s1 \in StartChoices, s2 \in StartChoices}

InitEstablish ==
    /\ \E sessions \in SessionTables : db = TablesWith(sessions)
    /\ dbCommitted = db
    /\ inTx = FALSE
    /\ now \in 0..MaxTime
    /\ fr = [c \in Calls |-> <<>>]
    /\ out = [c \in Calls |-> NoResponse]
    /\ \E token \in {TokenA, TokenB, Str(UuidOf("c"))} :
         probe = [stage |-> "asked", token |-> token]

Establish ==
    /\ probe.stage = "asked"
    /\ LET e == establishSession(db, probe.token, now)
       IN /\ Write(e.db)
          /\ probe' = [stage |-> "established", token |-> probe.token,
                       session |-> e.session, before |-> db]
    /\ UNCHANGED <<now, fr, out>>

NextEstablish == Establish

SpecEstablish == InitEstablish /\ [][NextEstablish]_vars

-----------------------------------------------------------------------------
(* ONE CLIENT, ITS CALLS OF THE SESSION MODULE ONE AFTER THE OTHER: the second
   call is sent when the first is answered, time passes between the calls *)

Carol == Num(3)
TokenA2 == Str(UuidOf("6"))
TokenUnknown == Str(UuidOf("5"))

\* the login token issued to the client before its first call, and the digest
\* the client computes from Alice's password hash and that token, in upper case
IssuedBefore == UuidOf("7")
UpperDigest == [i \in 1..64 |-> UpperChar(sha256(DigestOf("1"), IssuedBefore)[i])]

\* Alice holds two sessions, Bob one; Carol's account is not activated; the
\* client has been issued a login token
SessionTablesOf(client) ==
    [TablesWith(InitialSessions \o
                <<SessionRow(Num(3), Alice, TokenA2, 0, <<"ip of ", "c">>, <<"agent of ", "c">>)>>)
       EXCEPT !.api_users = @ \o <<UserRow(Carol, Str(<<"c">>), Str(DigestOf("3")), FALSE)>>,
              !.api_login_tokens = <<[ip |-> client.ip, user_agent |-> client.user_agent,
                                      login_token |-> IssuedBefore,
                                      expiration_date |-> Hour]>>]

InitSession == InitWith(SessionTablesOf(ClientOf(RequestOf("c1"))))

\* the session tokens the client can present: none, Alice's first token, and
\* the tokens of the sessions Alice holds now
PresentableTokens ==
    {Undef, TokenA}
    \cup {r.session_token : r \in {x \in Range(dbCommitted.api_sessions) : x.user_id = Alice}}

\* the digests the client can send: the digest of Alice's password hash and
\* the token issued at the start in upper case, the digests of her hash and of
\* the tokens stored for the client now, and a digest of neither
DigestChoices ==
    {UpperDigest, WrongDigest}
    \cup {sha256(DigestOf("1"), r.login_token) : r \in Range(dbCommitted.api_login_tokens)}

LoginParms(username, digest) ==
    With(With(EmptyParms, "username", Str(username)), "password_hash", Str(digest))

SessionRequest(c, method, parms) ==
    ReceiveFrom(c, RequestOf("c1"), method, parms)

\* the first call of the client: any method of the session module
RequestFirst(c) ==
    \/ \E digest \in DigestChoices :
         SessionRequest(c, LoginMethod, LoginParms(<<"a">>, digest))
    \/ \E username \in {<<"c">>, <<"z">>} :
         SessionRequest(c, LoginMethod, LoginParms(username, UpperDigest))
    \/ SessionRequest(c, LoginMethod,
                      With(LoginParms(<<"a">>, UpperDigest), "token", TokenA))
    \/ \E method \in {LogoutMethod, LogoutOthersMethod, KeepAliveMethod, ReportsMethod},
          token \in PresentableTokens :
         SessionRequest(c, method, RequestParms(method, token, Undef))
    \/ SessionRequest(c, RequestTokenMethod, EmptyParms)
    \/ \E token \in {TokenUnknown, TokenB} :
         SessionRequest(c, CheckSessionMethod, With(EmptyParms, "token", token))

\* the call that follows when the first is answered: a login, or a call that
\* presents a session token
RequestFollowing(c) ==
    /\ out["c1"] # NoResponse
    /\ \/ \E digest \in DigestChoices :
            SessionRequest(c, LoginMethod, LoginParms(<<"a">>, digest))
       \/ \E method \in {ReportsMethod, LogoutOthersMethod}, token \in PresentableTokens :
            SessionRequest(c, method, RequestParms(method, token, Undef))

\* time passes between the two calls
Tick ==
    /\ now < MaxTime
    /\ out["c1"] # NoResponse /\ fr["c2"] = <<>>
    /\ now' = now + 1
    /\ UNCHANGED <<db, dbCommitted, inTx, fr, out, probe>>

\* the steps of the pipeline for the methods called here
SessionPipeline(c) ==
    \/ EstablishSession(c)
    \/ ParameterCheck(c)
    \/ AuthorizationCheck(c)
    \/ StartTransaction(c)
    \/ UserReturn(c)
    \/ HandlerThrow(c)
    \/ Commit(c)
    \/ Rollback(c)
    \/ CatchRollback(c)
    \/ Respond(c)

SessionHandlers(c) ==
    \/ SessionModule(c)
    \/ CheckSessionLookup(c)
    \/ CreateTokenDelete(c)
    \/ CreateTokenInsert(c)
    \/ LogoutOthers(c)
    \/ KeepAlive(c)

NextSession ==
    \/ RequestFirst("c1")
    \/ Tick
    \/ RequestFollowing("c2")
    \/ \E c \in Calls : SessionPipeline(c) \/ SessionHandlers(c)

SpecSession == InitSession /\ [][NextSession]_vars

-----------------------------------------------------------------------------
(* TWO CALLS OF THE SESSION MODULE IN FLIGHT AT ONCE on the one connection of
   the server, from one client binding: token issuances, a login that is
   refused, a call with Alice's session; time passes while a transaction is open *)

InitSessionConc == InitSession

RequestConc(c) ==
    \/ SessionRequest(c, RequestTokenMethod, EmptyParms)
    \/ SessionRequest(c, CheckSessionMethod, With(EmptyParms, "token", TokenUnknown))
    \/ SessionRequest(c, LoginMethod, LoginParms(<<"a">>, WrongDigest))
    \/ SessionRequest(c, ReportsMethod, RequestParms(ReportsMethod, TokenA, Undef))

TickConc ==
    /\ now < MaxTime /\ inTx
    /\ now' = now + 1
    /\ UNCHANGED <<db, dbCommitted, inTx, fr, out, probe>>

\* the steps the calls of this specification take
StepsConc(c) ==
    \/ EstablishSession(c)
    \/ ParameterCheck(c)
    \/ AuthorizationCheck(c)
    \/ StartTransaction(c)
    \/ UserReturn(c)
    \/ LoginFindUser(c)
    \/ LoginVerify(c)
    \/ CheckSessionLookup(c)
    \/ CreateTokenDelete(c)
    \/ CreateTokenInsert(c)
    \/ Commit(c)
    \/ Rollback(c)
    \/ CatchRollback(c)
    \/ Respond(c)

NextSessionConc ==
    \/ TickConc
    \/ \E c \in Calls : RequestConc(c) \/ StepsConc(c)

SpecSessionConc == InitSessionConc /\ [][NextSessionConc]_vars

-----------------------------------------------------------------------------
(* TWO LOGINS OF ONE CLIENT BINDING IN FLIGHT AT ONCE: both present the digest
   salted with the login token issued to the client, or a wrong one *)

RequestLogin(c) ==
    \E digest \in {UpperDigest, WrongDigest} :
        SessionRequest(c, LoginMethod, LoginParms(<<"a">>, digest))

\* the steps a login takes
StepsLogin(c) ==
    \/ EstablishSession(c)
    \/ ParameterCheck(c)
    \/ AuthorizationCheck(c)
    \/ StartTransaction(c)
    \/ LoginFindUser(c)
    \/ LoginVerify(c)
    \/ LoginDeleteTokens(c)
    \/ LoginInsertSession(c)
    \/ LoginStoreToken(c)
    \/ LoginLoadSession(c)
    \/ LoginRecord(c)
    \/ Commit(c)
    \/ Rollback(c)
    \/ CatchRollback(c)
    \/ Respond(c)

NextLoginConc == \E c \in Calls : RequestLogin(c) \/ StepsLogin(c)

SpecLoginConc == InitSession /\ [][NextLoginConc]_vars

-----------------------------------------------------------------------------
(* PROPERTIES *)

\* the entries a multicall has run so far, in the order it ran them
Ran(f) == IF "ran" \in DOMAIN f.mc THEN f.mc.ran ELSE <<>>

\* every run of tryExecuteMethod of call c, finished or not
Frames(c) == Range(fr[c]) \cup UNION {Range(Ran(f)) : f \in Range(fr[c])}
AllFrames == UNION {Frames(c) : c \in Calls}

Issued(f, op) == \E i \in 1..Len(f.txlog) : f.txlog[i][1] = op
Succeeded(f, op) == \E i \in 1..Len(f.txlog) : f.txlog[i] = <<op, TRUE>>
Ended(f) == f.pc \in {"returned", "done"}
NoStorageFailure(f) == \A i \in 1..Len(f.txlog) : f.txlog[i][2]

\* C1: a transactional invocation issues the commit exactly when its handler
\* returned success = true; after a failure response or a throw it issues the
\* rollback and no commit; and an invocation that ends after opening its
\* transaction ends with the transaction committed or rolled back and closed.
C1_CommitIffSuccess ==
    \A c \in Calls : \A f \in Frames(c) :
        f.method.transaction /\ f.transactionStarted =>
            /\ Issued(f, "commit") => f.handlerOutcome = "success"
            /\ f.handlerOutcome = "success" /\ f.pc # "commit" => Issued(f, "commit")
            /\ Succeeded(f, "commit") => ~Issued(f, "rollback")
            /\ f.handlerOutcome \in {"failure", "threw"} /\ f.pc \notin {"rollback", "catch"}
                  => Issued(f, "rollback") /\ ~Issued(f, "commit")
            /\ Ended(f) => /\ f.txlog[Len(f.txlog)] \in {<<"commit", TRUE>>, <<"rollback", TRUE>>}
                           /\ f.txlog[Len(f.txlog)][1] = "commit"
                                 <=> f.handlerOutcome = "success" /\ NoStorageFailure(f)
            /\ f = Top(c) /\ f.pc = "returned" => ~inTx /\ db = dbCommitted

\* one batch in which an entry wrote and was committed and another entry
\* returned a failure and was rolled back
C1_Witness ==
    \E f \in AllFrames, g \in AllFrames :
        /\ f.transactionStarted /\ f.writes > 0 /\ f.handlerOutcome = "success"
        /\ Succeeded(f, "commit")
        /\ g.transactionStarted /\ g.handlerOutcome = "failure" /\ Ended(g)
        /\ Succeeded(g, "rollback")

\* C2: when the handler of a transactional method throws after it wrote, the
\* transaction is rolled back and tryExecuteMethod returns a failure response
\* with the code METHOD_ERROR instead of throwing.
C2_ThrowGivesMethodError ==
    \A f \in AllFrames :
        /\ f.method.transaction /\ f.transactionStarted
        /\ f.handlerOutcome = "threw" /\ f.writes > 0 /\ Ended(f)
        => /\ Succeeded(f, "rollback")
           /\ ~f.ret.threw
           /\ ~f.ret.value.success
           /\ "code" \in DOMAIN f.ret.value
           /\ f.ret.value.code = METHOD_ERROR

\* the permissions of a user: the granted keys and all keys below them
RECURSIVE Below(_, _, _)
Below(tbl, keys, n) ==
    IF n = 0 THEN keys
    ELSE Below(tbl, keys \cup {r.permission_key : r \in {x \in Range(tbl) : x.parent_key \in keys}},
               n - 1)

Effective(d, userID) ==
    Below(d.api_permissions,
          {r.permission_key : r \in {x \in Range(d.api_user_permissions) : x.user_id = userID}},
          Len(d.api_permissions))

Lacks(d, userID, required) ==
    /\ required # Null
    /\ \E i \in 1..Len(required.a) : required.a[i] \notin Effective(d, userID)

\* C3: the authorization check answers PERMISSION_SESSION when a session is
\* present and requireNoSession is set, whatever the permissions; otherwise
\* PERMISSION_MISSING when a session is present and its user lacks a required
\* permission; PERMISSION_NO_SESSION when no session is present and
\* requireSession is set; and passed in every other case.
C3_AuthorizationTable ==
    probe.stage = "answered" =>
        LET session == probe.session
            method == probe.method
            verdict == probe.verdict
        IN IF session # Null /\ method.requireNoSession
           THEN verdict = Rejected(MsgLoggedIn, PERMISSION_SESSION)
           ELSE IF session # Null /\ Lacks(db, session.user_id, method.requiredPermissions)
           THEN verdict = Rejected(MsgPermissions, PERMISSION_MISSING)
           ELSE IF session = Null /\ method.requireSession
           THEN verdict = Rejected(MsgNoSession, PERMISSION_NO_SESSION)
           ELSE verdict = Passed

\* a session whose user lacks a required permission, on a method that is for
\* clients without a session: the answer is PERMISSION_SESSION
C3_Witness ==
    /\ probe.stage = "answered"
    /\ probe.session # Null
    /\ probe.method.requireNoSession
    /\ Lacks(db, probe.session.user_id, probe.method.requiredPermissions)
    /\ probe.verdict = Rejected(MsgLoggedIn, PERMISSION_SESSION)

Rank(step) ==
    CASE step = "PARAMETER_CHECK" -> 1
      [] step = "AUTHORIZATION_CHECK" -> 2
      [] step = "TRANSACTION_BEGIN" -> 3
      [] step = "HANDLER_RUN" -> 4
      [] step \in {"COMMIT", "ROLLBACK"} -> 5
      [] step = "RESPONDED" -> 6

ParameterVerdict(f) == CheckParameters(f.method.parameters, f.given, 1).check
Untouched(f) == f.txlog = <<>> /\ f.handlerOutcome = "none" /\ f.writes = 0

Batches ==
    {c \in Calls : /\ fr[c] # <<>>
                   /\ fr[c][1].method.handler = "multicall"
                   /\ "ran" \in DOMAIN fr[c][1].mc}

\* the entries of batch c that ran or are running, in order
Entries(c) == Ran(fr[c][1]) \o (IF Len(fr[c]) = 2 THEN <<fr[c][2]>> ELSE <<>>)

Registered(call) ==
    "method" \in DOMAIN call /\ \E i \in 1..Len(methods) : call.method = PathOf(methods[i])

Answered(s) == Ended(s) /\ ~s.ret.threw
Failed(s) == Answered(s) /\ ~s.ret.value.success
MarkedBreaking(s) == "breaking" \in DOMAIN s.given /\ s.given.breaking = Bool(TRUE)
Carries(s) ==
    Answered(s) /\ "session" \in DOMAIN s.ret.value /\ s.ret.value.session # Null

\* the list a multicall returned
ResponsesOf(o) == o.methodResult.data.o.responses.a

\* C5: when an entry marked breaking is answered with a failure, no later
\* entry of the batch runs and the multicall returns the list that ends with
\* that response; after a failing entry that is not marked breaking the next
\* entry with a registered route runs.
C5_BreakingStops ==
    \A c \in Batches :
        LET o == fr[c][1]
            ran == Ran(o)
        IN \A k \in 1..Len(ran) :
              LET s == ran[k]
                  later == {i \in (s.entry + 1)..Len(o.mc.calls) : Registered(o.mc.calls[i])}
              IN Failed(s) =>
                    IF MarkedBreaking(s)
                    THEN /\ Len(Entries(c)) = k
                         /\ Ended(o) /\ o.handlerOutcome = "success"
                         /\ Len(ResponsesOf(o)) = k
                         /\ ResponsesOf(o)[k] = makeClientResponse(s.ret.value)
                    ELSE /\ o.pc = "await" \/ Ended(o)
                            => later = {} \/ Len(Entries(c)) > k
                         /\ Len(Entries(c)) > k
                            => /\ later # {}
                               /\ \A i \in later : Entries(c)[k + 1].entry <= i

\* a list of two registered entries whose first is marked breaking and fails:
\* the multicall has answered and only the first entry ran
C5_Witness ==
    \E c \in Batches :
        LET o == fr[c][1] IN
        /\ o.pc = "done"
        /\ Len(o.mc.calls) = 2 /\ Registered(o.mc.calls[2])
        /\ Len(Ran(o)) = 1
        /\ Failed(Ran(o)[1]) /\ MarkedBreaking(Ran(o)[1])

\* C6: in a multicall started without a session, an entry that follows an
\* entry whose response carried a session runs with the session of the last
\* such response.
C6_LoginPropagates ==
    \A c \in Batches :
        LET e == Entries(c) IN
        fr[c][1].session = Null =>
            \A j \in 1..Len(e), k \in 1..Len(e) :
                /\ j < k /\ Carries(e[j])
                /\ \A i \in (j + 1)..(k - 1) : ~Carries(e[i])
                => e[k].session = e[j].ret.value.session

\* an anonymous batch in which /reports/list ran its handler for Alice after
\* the login of Alice
C6_Witness ==
    \E c \in Batches :
        LET e == Entries(c) IN
        /\ fr[c][1].session = Null
        /\ Len(e) = 2
        /\ e[1].method = LoginMethod /\ Carries(e[1])
        /\ e[2].method = ReportsMethod /\ e[2].handlerOutcome = "success"
        /\ e[2].session.user_id = Alice

\* C7: in a multicall started with a session, an entry that follows a
\* successful /session/logout runs without a session, and is refused with
\* PERMISSION_NO_SESSION where its method requires a session.
C7_LogoutPropagates ==
    \A c \in Batches :
        LET e == Entries(c) IN
        fr[c][1].session # Null =>
            \A j \in 1..Len(e), k \in 1..Len(e) :
                /\ j < k
                /\ e[j].method = LogoutMethod /\ Answered(e[j]) /\ e[j].ret.value.success
                /\ \A i \in (j + 1)..(k - 1) : ~Carries(e[i])
                => /\ e[k].session = Null
                   /\ Ended(e[k]) /\ e[k].method.requireSession /\ ParameterVerdict(e[k]).passed
                      => e[k].ret = Returned(error(MsgNoSession, PERMISSION_NO_SESSION, Null))

\* C8: an entry of a multicall whose execution throws gets a failure response
\* with the code MULTICALL_ERROR in its slot of the returned list, after the
\* responses of the entries before it.
C8_FaultIsolated ==
    \A c \in Batches :
        LET o == fr[c][1]
            ran == Ran(o)
        IN \A k \in 1..Len(ran) :
              ran[k].ret.threw /\ out[c] # NoResponse =>
                  /\ out[c].success
                  /\ Len(out[c].data.o.responses.a) >= k
                  /\ out[c].data.o.responses.a[k].code = MULTICALL_ERROR
                  /\ \A j \in 1..(k - 1) :
                        out[c].data.o.responses.a[j] = makeClientResponse(ran[j].ret.value)

\* C9: the list a multicall returns holds, in the order of the call list, one
\* response for each entry with a registered route that is not behind a
\* failed breaking entry, and nothing for an entry with an unregistered route.
C9_OneResponsePerEntry ==
    \A c \in Batches :
        LET o == fr[c][1]
            ran == Ran(o)
            stoppers == {ran[k].entry : k \in {x \in 1..Len(ran) :
                                                  Failed(ran[x]) /\ MarkedBreaking(ran[x])}}
            reached == {i \in 1..Len(o.mc.calls) :
                           Registered(o.mc.calls[i]) /\ \A j \in stoppers : i <= j}
        IN Ended(o) /\ o.handlerOutcome = "success" =>
              /\ Len(ResponsesOf(o)) = Cardinality(reached)
              /\ Len(ran) = Cardinality(reached)
              /\ \A k \in 1..Len(ran) :
                    /\ ran[k].entry \in reached
                    /\ k > 1 => ran[k - 1].entry < ran[k].entry
                    /\ ResponsesOf(o)[k] = makeClientResponse(ran[k].ret.value)

\* a list of an unregistered route followed by a registered one: the returned
\* list holds the one response of the second entry
C9_Witness ==
    \E c \in Batches :
        LET o == fr[c][1] IN
        /\ o.pc = "done" /\ o.handlerOutcome = "success"
        /\ Len(o.mc.calls) = 2
        /\ ~Registered(o.mc.calls[1])
        /\ Len(ResponsesOf(o)) = 1 /\ Ran(o)[1].entry = 2

\* the notes the handler of call c wrote
WritesOf(c) == {[call |-> c, entry |-> 0, n |-> n] : n \in 1..fr[c][1].writes}

\* C10: when every call has been answered, each ran in a transaction and no
\* statement of the storage failed, the persisted notes are those written by
\* the calls whose handler returned success.
C10_TransactionsIsolated ==
    (\A c \in Calls : /\ fr[c] # <<>> /\ fr[c][1].pc = "done"
                      /\ fr[c][1].transactionStarted /\ NoStorageFailure(fr[c][1]))
    => /\ ~inTx
       /\ dbCommitted.notes =
             UNION {WritesOf(c) : c \in {x \in Calls : fr[x][1].handlerOutcome = "success"}}

NoDuplicates(arr) == \A i, j \in 1..Len(arr) : arr[i] = arr[j] => i = j

\* C20: for every acyclic hierarchy and every list of grants, getUserPermissions
\* returns a list without duplicates whose keys are exactly the granted keys
\* and all keys reachable from them by parent-to-child edges
C20_EffectivePermissions ==
    probe.stage = "loaded" =>
        /\ ~probe.result.diverged /\ ~probe.result.isNull
        /\ NoDuplicates(probe.result.list)
        /\ Range(probe.result.list) = Effective(db, probe.user)

\* a chain of three keys whose root alone is granted, a second grant repeating it
C20_Witness ==
    /\ probe.stage = "loaded" /\ probe.user = Alice
    /\ \E a, b, c \in KeyChoices :
         /\ a # b /\ b # c /\ a # c
         /\ Range(db.api_permissions) =
                {[permission_key |-> a, parent_key |-> "NULL"],
                 [permission_key |-> b, parent_key |-> a],
                 [permission_key |-> c, parent_key |-> b]}
         /\ db.api_user_permissions = <<[user_id |-> Alice, permission_key |-> a],
                                        [user_id |-> Alice, permission_key |-> a]>>
         /\ probe.result.list = <<a, b, c>>

Holders(d, token) == {r \in Range(d.api_sessions) : r.session_token = token}

\* C16: establishSession returns nothing and writes nothing when no session has
\* the token; when a session has it, the session with that token is returned
\* and the expiration of its row is the current time plus one hour
C16_EstablishContract ==
    probe.stage = "established" =>
        IF Holders(probe.before, probe.token) = {}
        THEN probe.session = Null /\ db = probe.before
        ELSE /\ probe.session # Null
             /\ probe.session.token = probe.token
             /\ \E r \in Holders(probe.before, probe.token) :
                  /\ probe.session.session_id = r.session_id
                  /\ probe.session.user_id = r.user_id
             /\ \A r \in Holders(db, probe.token) :
                  r.session_id = probe.session.session_id
                      => r.expiration_date = now + Hour
             /\ Holders(db, probe.token) # {}

\* a session past its expiration date is found by its token and renewed
C16_Witness ==
    /\ probe.stage = "established" /\ probe.session # Null /\ now > 0
    /\ probe.session.expiration_date < now
    /\ \E r \in Range(db.api_sessions) :
         r.session_id = probe.session.session_id /\ r.expiration_date = now + Hour

\* the call of c is the latest call of the client
Latest(c) == c = "c2" \/ fr["c2"] = <<>>

\* the top-level invocation of call c has ended and is one of the method
EndedCall(c, method) ==
    Running(c) /\ Len(fr[c]) = 1 /\ Top(c).method = method /\ Ended(Top(c))

ReturnedSuccess(f) == ~f.ret.threw /\ f.ret.value.success

\* what a login needs, read from the tables as the call found them
LoginConditions(f) ==
    /\ "username" \in DOMAIN f.given /\ "password_hash" \in DOMAIN f.given
    /\ f.given.username.t = "string" /\ f.given.password_hash.t = "string"
    /\ \E u \in Range(f.before.api_users), t \in Range(f.before.api_login_tokens) :
         /\ u.login_name = f.given.username /\ u.active
         /\ t.ip = f.request.ip /\ t.user_agent = f.request.headers.user_agent
         /\ ToLowerCase(sha256(u.password_hash.s, t.login_token))
                = ToLowerCase(f.given.password_hash.s)

SessionTablesEqual(d, e) ==
    /\ d.api_sessions = e.api_sessions
    /\ d.api_login_tokens = e.api_login_tokens
    /\ d.api_users = e.api_users

\* C13: a login that returns success found the user, the account active, a
\* login token stored for the client binding and the digest equal to
\* sha256(password hash, token) regardless of case, and has stored a session of
\* that user; every other login that ends returns a failure and leaves the
\* sessions, the login tokens and the last-login dates as it found them
C13_LoginOnlyWhenValid ==
    \A c \in Calls :
        (EndedCall(c, LoginMethod) /\ Latest(c) /\ Top(c).before # Null) =>
            LET f == Top(c) IN
            IF ReturnedSuccess(f)
            THEN /\ LoginConditions(f)
                 /\ \E r \in Range(db.api_sessions) :
                      /\ r \notin Range(f.before.api_sessions)
                      /\ r.session_token = f.ret.value.session.token
                      /\ \E u \in Range(f.before.api_users) :
                           u.login_name = f.given.username /\ u.user_id = r.user_id
            ELSE /\ f.ret.threw \/ ~f.ret.value.success
                 /\ SessionTablesEqual(db, f.before)
                 /\ SessionTablesEqual(dbCommitted, f.before)

\* a login with the digest in upper case is accepted and stores a session
C13_Witness ==
    /\ EndedCall("c1", LoginMethod) /\ Latest("c1")
    /\ ReturnedSuccess(Top("c1"))
    /\ Top("c1").given.password_hash = Str(UpperDigest)
    /\ UpperDigest # ToLowerCase(UpperDigest)
    /\ Len(db.api_sessions) = Len(Top("c1").before.api_sessions) + 1

TokensOf(d, request) ==
    {r \in Range(d.api_login_tokens) :
        r.ip = request.ip /\ r.user_agent = request.headers.user_agent}

FailedWith(f, msg) == ~f.ret.threw /\ f.ret.value = error(msg, Null, Null)

\* C14: when a login has succeeded no login token is stored for the client
\* binding; a second login from the binding with the same digest is refused
\* for want of a login token; and a login that follows the issue of a new
\* token and sends the digest of that token succeeds
C14_LoginConsumesToken ==
    /\ \A c \in Calls :
         (EndedCall(c, LoginMethod) /\ Latest(c) /\ ReturnedSuccess(Top(c)))
             => TokensOf(db, Top(c).request) = {}
    /\ (/\ EndedCall("c1", LoginMethod) /\ ReturnedSuccess(Top("c1"))
        /\ EndedCall("c2", LoginMethod)
        /\ Top("c2").given.password_hash = Top("c1").given.password_hash)
           => /\ ~ReturnedSuccess(Top("c2"))
              /\ (Top("c2").handlerOutcome \in {"success", "failure"}
                  /\ NoStorageFailure(Top("c2")))
                     => FailedWith(Top("c2"), MsgNoLoginToken)
    /\ (/\ EndedCall("c1", RequestTokenMethod) /\ ReturnedSuccess(Top("c1"))
        /\ EndedCall("c2", LoginMethod)
        /\ Top("c2").given.password_hash
               = Str(sha256(DigestOf("1"), Top("c1").ret.value.data.o.token.s))
        /\ Top("c2").handlerOutcome \in {"success", "failure"}
        /\ NoStorageFailure(Top("c2")))
           => ReturnedSuccess(Top("c2"))

\* the second login repeats the digest of the first and finds no login token
C14_Witness ==
    /\ EndedCall("c1", LoginMethod) /\ ReturnedSuccess(Top("c1"))
    /\ EndedCall("c2", LoginMethod)
    /\ Top("c2").given.password_hash = Top("c1").given.password_hash
    /\ FailedWith(Top("c2"), MsgNoLoginToken)

Presents(f, token) == "token" \in DOMAIN f.given /\ f.given.token = token

\* the session object a successful login returned
LoginSession(f) == f.ret.value.session

\* C15: when a login of user u has returned a session with token t, the call
\* that next presents t is given, by establishSession, a session with the
\* user id of u and the token t
C15_LoginThenEstablish ==
    (/\ EndedCall("c1", LoginMethod) /\ ReturnedSuccess(Top("c1"))
     /\ Running("c2") /\ Top("c2").pc # "establish"
     /\ Presents(Top("c2"), LoginSession(Top("c1")).token))
        => /\ Top("c2").session # Null
           /\ Top("c2").session.token = LoginSession(Top("c1")).token
           /\ \E u \in Range(db.api_users) :
                /\ u.login_name = Top("c1").given.username
                /\ Top("c2").session.user_id = u.user_id

\* Alice logs in and then calls /reports/list with the token of the new session
C15_Witness ==
    /\ EndedCall("c1", LoginMethod) /\ ReturnedSuccess(Top("c1"))
    /\ EndedCall("c2", ReportsMethod) /\ ReturnedSuccess(Top("c2"))
    /\ Presents(Top("c2"), LoginSession(Top("c1")).token)
    /\ LoginSession(Top("c1")).token \notin {TokenA, TokenA2, TokenB}
    /\ Top("c2").session.user_id = Alice

RowsOfSession(d, sessionID) == {r \in Range(d.api_sessions) : r.session_id = sessionID}

\* C17: a call of /session/keep_alive with a valid session whose UPDATE was
\* executed, no storage statement failing, returns success and leaves the
\* expiration date of the session at the current time plus one hour
C17_KeepAliveExtends ==
    \A c \in Calls :
        (/\ EndedCall(c, KeepAliveMethod) /\ Latest(c)
         /\ Top(c).session # Null /\ Top(c).h.step = 2
         /\ NoStorageFailure(Top(c)))
            => /\ ReturnedSuccess(Top(c))
               /\ \A r \in RowsOfSession(db, Top(c).session.session_id) :
                    r.expiration_date = now + Hour

\* C18: when a logout of session s has returned success, no row of s is left,
\* and a later call that presents the token of s is processed without a session
C18_LogoutEndsSession ==
    (/\ EndedCall("c1", LogoutMethod) /\ ReturnedSuccess(Top("c1"))
     /\ Top("c1").session # Null)
        => /\ RowsOfSession(db, Top("c1").session.session_id) = {}
           /\ RowsOfSession(dbCommitted, Top("c1").session.session_id) = {}
           /\ (/\ Running("c2") /\ Top("c2").pc # "establish"
               /\ Presents(Top("c2"), Top("c1").session.token))
                  => Top("c2").session = Null

\* Alice logs out and then calls /reports/list with the token of that session
C18_Witness ==
    /\ EndedCall("c1", LogoutMethod) /\ ReturnedSuccess(Top("c1"))
    /\ Top("c1").session # Null /\ Top("c1").session.token = TokenA
    /\ EndedCall("c2", ReportsMethod) /\ Presents(Top("c2"), TokenA)
    /\ ~Top("c2").ret.threw /\ Top("c2").ret.value.code = PERMISSION_NO_SESSION

\* C19: when /session/logout_others called with session s of user u has
\* returned success, the sessions are those it found less the sessions of u
\* other than s: s and the sessions of other users are as they were
C19_LogoutOthersFrame ==
    \A c \in Calls :
        (/\ EndedCall(c, LogoutOthersMethod) /\ Latest(c)
         /\ ReturnedSuccess(Top(c)))
            => LET f == Top(c) IN
               /\ f.session # Null
               /\ Range(db.api_sessions) =
                      {r \in Range(f.before.api_sessions) :
                          r.user_id # f.session.user_id
                          \/ r.session_id = f.session.session_id}
               /\ RowsOfSession(db, f.session.session_id) # {}
               /\ dbCommitted.api_sessions = db.api_sessions

\* Alice, holding three sessions after a login, ends the two older ones
C19_Witness ==
    /\ EndedCall("c1", LoginMethod) /\ ReturnedSuccess(Top("c1"))
    /\ EndedCall("c2", LogoutOthersMethod) /\ ReturnedSuccess(Top("c2"))
    /\ Top("c2").session.token = LoginSession(Top("c1")).token
    /\ Len(Top("c2").before.api_sessions) = 4
    /\ {r.user_id : r \in Range(db.api_sessions)} = {Alice, Bob}
    /\ Len(db.api_sessions) = 2

\* C11: while a session exists, no step lowers the expiration date that the
\* connection reads for it, whatever the calls in flight do
C11_ExpirationNeverDecreases ==
    [][\A r \in Range(db.api_sessions) : \A q \in Range(db'.api_sessions) :
          q.session_id = r.session_id => q.expiration_date >= r.expiration_date]_vars

\* C12: when the calls in flight have ended, none of them after a failing
\* storage statement, at most one login token is stored for the client
\* binding, and an issuance that has returned a token finds it stored unless
\* a later issuance replaced it
C12_OneTokenPerBinding ==
    (\A c \in Calls : Running(c) =>
        Len(fr[c]) = 1 /\ Ended(Top(c)) /\ NoStorageFailure(Top(c)))
        => Cardinality(TokensOf(db, RequestOf("c1"))) <= 1

\* C21: the resolution of the permissions of a user returns for every
\* hierarchy, one with a cycle included
C21_ResolutionTerminates ==
    probe.stage = "resolved" => ~probe.result.diverged

\* C22: userHasPermissions is true for every user, an absent one included,
\* when the required list is empty or absent; false when the list is not
\* empty and the user is absent; and otherwise true exactly when every
\* required key is in the effective permissions of the user
C22_HasPermissionsTable ==
    probe.stage = "checked" =>
        /\ ~probe.has.diverged
        /\ probe.has.value =
              IF Absent(probe.required) THEN TRUE
              ELSE IF probe.required.a = <<>> THEN TRUE
              ELSE IF Absent(probe.user) THEN FALSE
              ELSE Range(probe.required.a) \subseteq Effective(db, probe.user)

\* an absent user passes an empty list, a user holding the parent key of a
\* required key passes, and that user fails a list with a key not held
C22_Witness ==
    /\ probe.stage = "checked" /\ probe.user = Alice
    /\ probe.required = Arr(<<"reports.export">>) /\ probe.has.value
    /\ \A r \in Range(db.api_user_permissions) : r.permission_key # "reports.export"
    /\ ~userHasPermissions(db, Alice, Arr(<<"reports", "notes">>)).value
    /\ userHasPermissions(db, Null, Arr(<<>>)).value

\* C29 as the code has it: for an absent user id getUserPermissions returns
\* null, whatever the tables hold
C29_AbsentUserGivesNull ==
    (probe.stage = "resolved" /\ Absent(probe.user)) =>
        probe.result = [diverged |-> FALSE, isNull |-> TRUE, list |-> <<>>]

\* C29 as stated: for an absent user id getUserPermissions returns the empty
\* set
C29_AbsentUserGivesEmpty ==
    (probe.stage = "resolved" /\ Absent(probe.user)) =>
        ~probe.result.isNull /\ probe.result.list = <<>>

\* an undefined user id, with grants and a hierarchy in the tables
C29_Witness ==
    /\ probe.stage = "resolved" /\ probe.user = Undef
    /\ probe.result.isNull
    /\ Len(db.api_user_permissions) = MaxGrants

RECURSIVE Above(_, _, _)
\* the keys from which one of keys is reached by parent-to-child edges
Above(tbl, keys, n) ==
    IF n = 0 THEN keys
    ELSE Above(tbl, keys \cup {r.parent_key : r \in {x \in Range(tbl) : x.permission_key \in keys}},
               n - 1)

\* the lists of grants with the same granted keys for each user
SameGrants(grants) ==
    {g \in UNION {[1..n -> GrantRows] : n \in 0..MaxGrants} : Range(g) = Range(grants)}

\* C30: over an acyclic hierarchy the set of keys getUserPermissions returns
\* is the same for every order of the grants and every repetition of a grant
\* and is the same when resolved again; and the descendants of a key hold
\* neither the key nor one of its ancestors
C30_OrderAndRepetition ==
    (probe.stage = "resolved" /\ ~Absent(probe.user)) =>
        /\ \A g \in SameGrants(db.api_user_permissions) :
             Range(getUserPermissions([db EXCEPT !.api_user_permissions = g],
                                      probe.user).list)
                 = Range(probe.result.list)
        /\ getUserPermissions(db, probe.user) = probe.result
        /\ \A k \in KeyChoices :
             Range(getPermissionDecendants(db, k).list)
                 \cap Above(db.api_permissions, {k}, Len(db.api_permissions)) = {}

\* the grants of a child and then of its parent, which yield the keys of the
\* grants of the parent and then of the child in another order
C30_Witness ==
    /\ probe.stage = "resolved" /\ probe.user = Alice
    /\ \E a, b \in KeyChoices :
         /\ db.api_user_permissions = <<[user_id |-> Alice, permission_key |-> b],
                                        [user_id |-> Alice, permission_key |-> a]>>
         /\ [permission_key |-> b, parent_key |-> a] \in Range(db.api_permissions)
         /\ probe.result.list[1] = b
         /\ getUserPermissions([db EXCEPT !.api_user_permissions =
                                   <<[user_id |-> Alice, permission_key |-> a],
                                     [user_id |-> Alice, permission_key |-> b]>>],
                               Alice).list[1] = a

\* the value sent for the parameter is missing, undefined or null
Missing(parm, parms) == parm.key \notin DOMAIN parms \/ Absent(parms[parm.key])

Raw == probe.parms[probe.parm.key]

\* the integer a value stands for when read as a decimal integer with an
\* optional sign, blanks around it ignored: [numeric, n]
IntegerOf(v) ==
    LET chars == IF v.t = "string" THEN Trim(v.s)
                 ELSE IF v.t = "number" THEN StringOf(v).s ELSE <<"?">>
        body == IF chars # <<>> /\ Head(chars) = "-" THEN Tail(chars) ELSE chars
    IN IF MatchesInt(body)
       THEN [numeric |-> TRUE,
             n |-> IF body = chars THEN DigitsValue(body) ELSE 0 - DigitsValue(body)]
       ELSE [numeric |-> FALSE, n |-> 0]

RejectedCode(result, code) == result # Undef /\ ~result.passed /\ result.errorCode = code

IntegerBounded(parm) ==
    /\ DOMAIN parm = {"key", "type", "min", "max"}
    /\ parm.type \in {"int", "integer"}

\* C23: for an integer parameter with a minimum and a maximum, a numeric input
\* inside the bounds is accepted as that integer, one below the minimum or
\* above the maximum is rejected with PARAM_RANGE, and one that is not numeric
\* with PARAM_TYPE
C23_IntegerBounds ==
    (/\ probe.stage = "checked" /\ IntegerBounded(probe.parm)
     /\ ~Missing(probe.parm, probe.parms))
        => LET i == IntegerOf(Raw) IN
           IF ~i.numeric THEN RejectedCode(probe.result, PARAM_TYPE)
           ELSE IF i.n < probe.parm.min \/ i.n > probe.parm.max
           THEN RejectedCode(probe.result, PARAM_RANGE)
           ELSE probe.result = Accepted(Num(i.n))

\* C24: for an input that is missing, undefined or null, checkParameter
\* accepts with the configured default when the definition is optional and has
\* a default, accepts with null when it is optional and has none, and rejects
\* with PARAM_MISSING when it is not optional
C24_MissingInput ==
    (probe.stage = "checked" /\ Missing(probe.parm, probe.parms)) =>
        LET parm == probe.parm
            optional == "optional" \in DOMAIN parm /\ parm.optional
            hasDefault == "default" \in DOMAIN parm /\ parm.default # Undef
        IN IF optional /\ hasDefault THEN probe.result = Accepted(parm.default)
           ELSE IF optional THEN probe.result = Accepted(Null)
           ELSE /\ RejectedCode(probe.result, PARAM_MISSING)
                /\ probe.result.reason = ReasonMissing(parm.key)

\* a null sent for an optional integer parameter with the default 7
C24_Witness ==
    /\ probe.stage = "checked" /\ probe.parms = [p |-> Null]
    /\ "type" \in DOMAIN probe.parm /\ probe.parm.type = "int"
    /\ "default" \in DOMAIN probe.parm /\ probe.parm.default = Num(7)
    /\ probe.parm.optional
    /\ probe.result = Accepted(Num(7))

\* C25: when the value as it was sent is a member of interpretAsNull, the
\* parameter is accepted with the value null, whether the type check passed
\* or failed and whatever the conversion made of the value
C25_RawValueInterpretedAsNull ==
    (/\ probe.stage = "checked" /\ ~Missing(probe.parm, probe.parms)
     /\ "type" \in DOMAIN probe.parm /\ "interpretAsNull" \in DOMAIN probe.parm
     /\ Includes(probe.parm.interpretAsNull, Raw))
        => probe.result = Accepted(Null)

\* a number below (above) a bound, the number being an integer or a decimal
NumberBelow(v, bound) ==
    LET x == IF "n" \in DOMAIN v THEN [n |-> v.n, den |-> 1] ELSE DecimalOf(v.real)
    IN x.n < bound * x.den
NumberAbove(v, bound) ==
    LET x == IF "n" \in DOMAIN v THEN [n |-> v.n, den |-> 1] ELSE DecimalOf(v.real)
    IN x.n > bound * x.den

IsPlainText(v) == v.t = "string" /\ "s" \in DOMAIN v

\* the rules of a parameter definition that the canonical value v violates,
\* numbered in the order minimum, maximum, maximum length, minimum length,
\* allowed values
Violated(parm, v) ==
    {n \in 1..5 :
        \/ n = 1 /\ "min" \in DOMAIN parm /\ v.t = "number" /\ NumberBelow(v, parm.min)
        \/ n = 2 /\ "max" \in DOMAIN parm /\ v.t = "number" /\ NumberAbove(v, parm.max)
        \/ n = 3 /\ "maxLength" \in DOMAIN parm /\ IsPlainText(v) /\ Len(v.s) > parm.maxLength
        \/ n = 4 /\ "minLength" \in DOMAIN parm /\ IsPlainText(v) /\ Len(v.s) < parm.minLength
        \/ n = 5 /\ "allowedValues" \in DOMAIN parm /\ v \notin Range(parm.allowedValues)}

RuleReason(parm, n) ==
    CASE n = 1 -> ReasonMin(parm.key, parm.min)
      [] n = 2 -> ReasonMax(parm.key, parm.max)
      [] n = 3 -> ReasonMaxLength(parm.key, parm.maxLength)
      [] n = 4 -> ReasonMinLength(parm.key, parm.minLength)
      [] OTHER -> ReasonAllowed(parm.key)

NoNullField(envelope) == \A k \in DOMAIN envelope \ {"success"} : envelope[k] # Null

\* the envelopes of the response list, when the envelope is that of a multicall
NestedEnvelopes(envelope) ==
    IF /\ "data" \in DOMAIN envelope /\ envelope.data.t = "object"
       /\ "responses" \in DOMAIN envelope.data.o
    THEN Range(envelope.data.o.responses.a) ELSE {}

\* C27: no envelope sent to the client, as the answer of a call or inside the
\* response list of a multicall, has a field whose value is null
C27_NoNullField ==
    \A c \in Calls :
        out[c] # NoResponse =>
            /\ NoNullField(out[c])
            /\ \A envelope \in NestedEnvelopes(out[c]) : NoNullField(envelope)

\* C28: an invocation whose executor has entered the transaction handling of
\* APIMethod.execute never ends with its promise neither resolved nor
\* rejected, also when commit or rollback fails
C28_ExecuteSettles ==
    \A f \in AllFrames :
        (f.txlog # <<>> /\ f.pc = "hung") => f.promise # Pending

HandlerInvoked(f) == \E i \in 1..Len(f.steps) : f.steps[i] = "HANDLER_RUN"

\* C31: when the handler of a method is invoked, the input map holds, for
\* every parameter of the method, the value the verification of what the
\* client sent produced
C31_HandlerSeesVerifiedValues ==
    \A f \in AllFrames :
        HandlerInvoked(f) =>
            \A i \in 1..Len(f.method.parameters) :
                LET parm == f.method.parameters[i]
                    parmCheck == checkParameter(parm, f.given)
                IN /\ parmCheck # Undef
                   /\ parmCheck.passed
                   /\ parm.key \in DOMAIN f.parms
                   /\ f.parms[parm.key] = parmCheck.newValue

\* the handler of /guestbook/post runs with the number 15 for the text "15"
C31_Witness ==
    \E f \in AllFrames :
        /\ HandlerInvoked(f) /\ f.method = PostMethod
        /\ "age" \in DOMAIN f.given /\ f.given.age = Str(<<"1", "5">>)
        /\ f.parms.age = Num(15)

\* C32: checkParameter gives, for every parameter definition and every input,
\* a verification result whose passed flag is true or false
C32_CheckParameterTotal ==
    probe.stage = "checked" =>
        /\ probe.result # Undef
        /\ "passed" \in DOMAIN probe.result
        /\ probe.result.passed \in BOOLEAN

\* the number written by the two characters at positions i and i + 1
NumberAt(chars, i) == 10 * DigitValue(chars[i]) + DigitValue(chars[i + 1])

\* a text YYYY-MM-DD with month 01 to 12 and day 01 to 31
WellFormedDate(chars) ==
    /\ Len(chars) = 10
    /\ \A i \in 1..10 : IF i \in {5, 8} THEN chars[i] = "-" ELSE chars[i] \in DigitChars
    /\ NumberAt(chars, 6) \in 1..12
    /\ NumberAt(chars, 9) \in 1..31

\* a well-formed date followed by a time of day HH:MM:SS
WellFormedDatetime(chars) ==
    /\ Len(chars) = 19
    /\ WellFormedDate(SubSeq(chars, 1, 10))
    /\ chars[11] = " " /\ chars[14] = ":" /\ chars[17] = ":"
    /\ \A i \in {12, 13, 15, 16, 18, 19} : chars[i] \in DigitChars
    /\ NumberAt(chars, 12) \in 0..23
    /\ NumberAt(chars, 15) \in 0..59
    /\ NumberAt(chars, 18) \in 0..59

\* C39: the date check accepts every text whose year has four digits, whose
\* month is 01 to 12 and whose day is 01 to 31, and the datetime check every
\* such date followed by an hour 00 to 23 and a minute and second 00 to 59
C39_CalendarDatesAccepted ==
    probe.stage = "checked" =>
        /\ (probe.parm.type = "date" /\ WellFormedDate(Raw.s))
              => probe.result = Accepted(Raw)
        /\ (probe.parm.type = "datetime" /\ WellFormedDatetime(Raw.s))
              => probe.result = Accepted(Raw)

\* the rows with the token whose expiration date lies before the time t
ExpiredHolders(d, token, t) == {r \in Holders(d, token) : r.expiration_date < t}

\* C37: for a token held only by a session whose expiration date is earlier
\* than the current time, establishSession returns nothing and leaves the
\* tables as they are
C37_OnlyLiveSessions ==
    (/\ probe.stage = "established"
     /\ Holders(probe.before, probe.token) # {}
     /\ ExpiredHolders(probe.before, probe.token, now) = Holders(probe.before, probe.token))
        => probe.session = Null /\ db = probe.before

RequiresPermissions(method) ==
    method.requiredPermissions # Null /\ method.requiredPermissions.a # <<>>

\* C36: the handler of a method with a non-empty list of required permissions
\* is invoked only for a caller with a session whose user holds every one of
\* them, never for a caller without a session
C36_PermissionsGuardHandler ==
    \A f \in AllFrames :
        (HandlerInvoked(f) /\ RequiresPermissions(f.method)) =>
            /\ f.session # Null
            /\ ~Lacks(db, f.session.user_id, f.method.requiredPermissions)

\* C33: in a multicall the first entry runs with the session of the multicall,
\* and an entry that follows an entry whose response carried no session (a
\* refused or failed entry, or a success without a session payload) runs with
\* the same session as that entry
C33_SessionKeptWithoutPayload ==
    \A c \in Batches :
        LET e == Entries(c) IN
        /\ e # <<>> => e[1].session = fr[c][1].session
        /\ \A k \in 1..(Len(e) - 1) :
              (Answered(e[k]) /\ ~Carries(e[k])) => e[k + 1].session = e[k].session

\* a batch of two entries called with a session: the first entry is refused
\* and the second runs its handler with that session
C33_Witness ==
    \E c \in Batches :
        LET e == Entries(c) IN
        /\ Len(e) = 2 /\ fr[c][1].session # Null
        /\ Failed(e[1]) /\ ~Carries(e[1])
        /\ e[2].session = fr[c][1].session /\ e[2].handlerOutcome = "success"

\* the notes written by the run s of an entry of the batch of call c
NotesOf(c, s) == {[call |-> c, entry |-> s.entry, n |-> n] : n \in 1..s.writes}

\* C34: the multicall itself opens no transaction; an entry whose method is
\* transactional runs its handler in a transaction of its own and an entry
\* whose method is not issues no transaction statement; the notes of an entry
\* that committed are persisted and stay so whatever later entries do, and
\* the notes of an entry that was rolled back are not persisted
C34_EntriesOwnTransactions ==
    \A c \in Batches :
        LET o == fr[c][1]
            e == Entries(c)
        IN /\ ~o.transactionStarted /\ o.txlog = <<>>
           /\ \A k \in 1..Len(e) :
                 LET s == e[k] IN
                 /\ HandlerInvoked(s) =>
                       IF s.method.transaction
                       THEN s.transactionStarted /\ s.txlog[1] = <<"begin", TRUE>>
                       ELSE s.txlog = <<>>
                 /\ Succeeded(s, "commit") => NotesOf(c, s) \subseteq dbCommitted.notes
                 /\ Succeeded(s, "rollback") => NotesOf(c, s) \cap dbCommitted.notes = {}

\* a batch of two entries that each wrote a note: the first committed, the
\* second failed and was rolled back, and the note of the first is persisted
C34_Witness ==
    \E c \in Batches :
        LET o == fr[c][1]
            e == Entries(c)
        IN /\ o.pc = "done" /\ Len(e) = 2
           /\ e[1].writes > 0 /\ Succeeded(e[1], "commit")
           /\ e[2].writes > 0 /\ e[2].handlerOutcome = "failure" /\ Succeeded(e[2], "rollback")
           /\ dbCommitted.notes = NotesOf(c, e[1])

\* C35: a multicall whose content holds an array of calls is answered with a
\* success that carries the list of responses, whatever became of its entries
C35_MulticallSucceeds ==
    \A c \in Batches :
        out[c] # NoResponse =>
            /\ out[c].success
            /\ "data" \in DOMAIN out[c]
            /\ out[c].data = Obj([responses |-> Arr(fr[c][1].mc.responses)])

\* C40: a call of /session/check_session that meets no failure of the storage
\* answers, for the token of an existing session, success with session_valid
\* true and the session, and for a well-formed token of no session success
\* with session_valid false and a login token, which is stored for the client
\* until a later call of the client replaces or uses it
C40_CheckSessionAnswers ==
    \A c \in Calls :
        (/\ EndedCall(c, CheckSessionMethod)
         /\ "token" \in DOMAIN Top(c).given /\ MatchesUuid(Top(c).given.token.s)
         /\ NoStorageFailure(Top(c)) /\ Top(c).handlerOutcome # "threw")
        => LET f == Top(c)
               token == f.given.token
           IN /\ ReturnedSuccess(f)
              /\ IF Holders(f.before, token) # {}
                 THEN /\ f.ret.value.data.o.session_valid = Bool(TRUE)
                      /\ f.ret.value.data.o.session.token = token
                 ELSE /\ f.ret.value.data.o.session_valid = Bool(FALSE)
                      /\ MatchesUuid(f.ret.value.data.o.token.s)
                      /\ Latest(c) => \E r \in Range(dbCommitted.api_login_tokens) :
                                         Str(r.login_token) = f.ret.value.data.o.token

\* the top-level invocation of call c is a login that was answered with success
LoginSucceeded(c) == EndedCall(c, LoginMethod) /\ ReturnedSuccess(Top(c))

\* C38: two logins of one client binding that present the same digest, salted
\* with the one login token issued to the client, never both succeed
C38_OneSessionPerToken ==
    ~(/\ LoginSucceeded("c1") /\ LoginSucceeded("c2")
      /\ Top("c1").given.password_hash = Top("c2").given.password_hash
      /\ Top("c1").request = Top("c2").request)

=============================================================================
